---- MODULE Spec2Model ----
(***************************************************************************)
(* A state-machine model of the brian-discord-bot repository: the          *)
(* timed-role grant API (utils/role_timers.py, data/models/                *)
(* timed_role_model.py), the role-expiry sweep and the expiry processing   *)
(* of one grant (cogs/role_timer.py), the two background schedules with    *)
(* their cogs' load and unload, and the staff-listing refresh              *)
(* (cogs/staff_listings.py).                                               *)
(*                                                                         *)
(* Every coroutine is cut at its await points: one action is the code      *)
(* between two awaits, which the single-threaded event loop runs without   *)
(* interleaving.                                                           *)
(***************************************************************************)
EXTENDS Integers, Sequences, FiniteSets, TLC

\* ------------------------------------------------------------------ bounds
\* The clock runs over 0..MaxTime (whole seconds, as int(time.time())).
MaxTime == 2
\* duration_seconds is drawn from 0..MaxDuration.
MaxDuration == 1
\* logger.error entries are counted up to MaxLog.
MaxLog == 2
\* Each cog is reloaded at most MaxReloads times.
MaxReloads == 2
\* A channel holds up to MaxRecent messages younger than 14 days and up to
\* MaxOld messages at or past 14 days before it is cleared.
MaxRecent == 1
MaxOld == 2
\* Top-role positions are drawn from 1..MaxTop.
MaxTop == 3
\* The secret number is drawn from 1..MaxTarget (random.randint(1, 100)).
MaxTarget == 2
\* Up to MaxCallbacks modal callbacks are in flight at once.
MaxCallbacks == 2
\* The attempt counter is followed up to MaxCounted.
MaxCounted == 8
\* A paginator has 1..MaxPages pages.
MaxPages == 4
\* Up to MaxPending edit_message calls are awaited at once.
MaxPending == 2
\* Duration strings have up to MaxLen characters.
MaxLen == 4
\* Each component of a number of seconds is drawn from 0..MaxUnits or is
\* the top of its range.
MaxUnits == 2

\* ------------------------------------------------------- the platform side
\* One server; its members and roles. A role's rank is its number.
GuildId == "guild"
Members == {"m1", "m2"}
Roles == {1, 2, 3}
\* member.guild.me.top_role: the bot's own highest role.
BotTopRole == 2
\* The channel a grant may name for its expiry notice; 0 is None.
NotifyChannelId == 7
None == 0

\* The invocations of utils.role_timers.add_timed_role: two callers, each
\* calling once, one after the other or with their awaits overlapping.
Calls == {"call1", "call2"}

VARIABLES
    \* the clock, the storage engine and the platform
    now,              \* the wall clock, int(time.time())
    timed_roles,      \* the rows of table timed_roles
    next_id,          \* AUTOINCREMENT: the id the next inserted row gets
    last_insert_rowid,\* the shared connection's last_insert_rowid()
    member_roles,     \* <<member, role>>: the member holds the role
    guild_ok,         \* bot.get_guild(guild_id) resolves
    guild_members,    \* the members guild.get_member resolves
    guild_roles,      \* the roles guild.get_role resolves
    \* utils.role_timers.add_timed_role, one entry per invocation
    call_pc,          \* where the invocation stands
    call_args,        \* its arguments
    call_result,      \* "ok", or the exception it raised
    call_returned,    \* the record id it returned
    call_row,         \* the id of the row it inserted
    api_add_roles,    \* the invocations that called member.add_roles
    \* RoleTimer.check_timed_roles
    sweep_pc,         \* "idle" or "running"
    error_log,        \* logger.error entries of the role timer cog
    \* RoleTimer._process_expired_role
    exp_pc,           \* where the processing of exp_record stands
    exp_record,       \* the record being processed
    exp_has_role,     \* has_role, line 123
    exp_unresolved,   \* the guild, member or role was gone when it began
    api_log           \* platform calls this processing has issued

world_vars == <<now, timed_roles, next_id, last_insert_rowid, member_roles,
                guild_ok, guild_members, guild_roles>>
call_vars == <<call_pc, call_args, call_result, call_returned, call_row,
               api_add_roles>>
sweep_vars == <<sweep_pc, error_log>>
exp_vars == <<exp_pc, exp_record, exp_has_role, exp_unresolved, api_log>>

\* The two cogs that own a tasks.loop schedule: RoleTimer owns
\* role_check_task, StaffListings owns update_staff_listings.
Cogs == {"role_timer", "staff_listings"}
\* The cogs the reload command can name one by one (admin.py, choices).
ReloadChoices == {"staff_listings"}
\* What starts a full refresh of the staff listings: the scheduled tick, the
\* update_staff command, and the two member events.
Triggers == {"tick", "command", "member_update", "member_remove"}
EventTriggers == {"member_update", "member_remove"}
\* The listing channels in the order a refresh rebuilds them: the high-staff
\* channel, then the department channels (one department stands for all).
ChannelOrder == <<"high", "HAD">>
Channels == {ChannelOrder[i] : i \in 1..Len(ChannelOrder)}

VARIABLES
    \* the gateway and the cogs
    bot_ready,        \* on_ready has fired: wait_until_ready() returns
    cog_gen,          \* per cog: how many times it has been reloaded
    loop_state,       \* per cog: the state of its current instance's loop
    prev_loop_state,  \* per cog: the loop of the instance unloaded last
    unload_error,     \* the cogs whose cog_unload raised
    \* StaffListings
    ref_pc,           \* per trigger: where its refresh stands
    ref_chan,         \* per trigger: index in ChannelOrder of its channel
    update_lock,      \* self.update_lock: "free" or the trigger holding it
    permission_errors,\* self.permission_errors
    channel_msgs,     \* per channel: the refreshes whose listings it shows
    forbidden,        \* the channels where the bot lacks permissions
    ref_failed        \* per trigger: the channels where its refresh met
                      \* a permission failure

life_vars == <<bot_ready, cog_gen, loop_state, prev_loop_state, unload_error>>
staff_vars == <<ref_pc, ref_chan, update_lock, permission_errors,
                channel_msgs, forbidden, ref_failed>>
bot_vars == <<life_vars, staff_vars>>

\* The state of the operations modelled further below, one group each.
\* config.DEPARTMENTS in its configured order (the first two of the five).
Departments == <<"HAD", "PM">>
\* The listing channels of a refresh in the order it takes them.
RbChannels == <<"high">> \o Departments
\* channel.history(limit=100)
HistoryLimit == 100

VARIABLES
    \* one clear_channel call, or one full refresh, step by step
    rb_pc,            \* where it stands
    rb_mode,          \* "clear": clear_channel alone; "refresh": a refresh
    rb_chan,          \* index in RbChannels of the channel at hand
    rb_msgs,          \* per channel: its old messages, by age class
    rb_recent,        \* len(recent_messages) of the running clear_channel
    rb_older,         \* the older_messages still to delete
    rb_slot,          \* index of the embed to create and send next
    rb_input,         \* the setting: embeds that come out None, the call
                      \* that fails, the channels that do not resolve
    rb_log,           \* the platform calls issued, in order
    rb_errors,        \* self.permission_errors
    rb_raised         \* what clear_channel raised to its caller

rb_vars == <<rb_pc, rb_mode, rb_chan, rb_msgs, rb_recent, rb_older, rb_slot,
             rb_input, rb_log, rb_errors, rb_raised>>

\* cogs/admin.py: one moderation command (kick, ban, timeout)
VARIABLES
    mod_pc,           \* where the command's coroutine stands
    mod_cmd,          \* "kick", "ban" or "timeout"
    mod_in,           \* the interaction: top roles, owner, permission, ...
    mod_log           \* the platform calls the command has issued, in order

mod_vars == <<mod_pc, mod_cmd, mod_in, mod_log>>

\* cogs/error_handler.py: one call of on_slash_command_error
VARIABLES
    eh_pc,            \* where the listener stands
    eh_error,         \* the error it was called with
    eh_own_handler,   \* hasattr(inter.application_command, 'on_error')
    eh_response_done, \* inter.response.is_done() when it is called
    eh_text,          \* the message about to be sent
    eh_sent,          \* the messages sent on the interaction
    eh_log,           \* the logger.error entries written
    eh_raised         \* what the listener itself raised

eh_vars == <<eh_pc, eh_error, eh_own_handler, eh_response_done, eh_text,
             eh_sent, eh_log, eh_raised>>

\* cogs/fun.py: the number-guessing game
VARIABLES
    ongoing_games,    \* self.ongoing_games: player -> game state, or NoGame
    guess_cb,         \* the modal callbacks in flight, each at its await
    guess_key_error   \* whether a callback's del has raised KeyError

fun_vars == <<ongoing_games, guess_cb, guess_key_error>>

\* utils/ui_utils.py: one Paginator view
VARIABLES
    pg_pc,            \* "none" before construction, "ready", "stopped"
    pg_embeds,        \* len(self.embeds)
    current_page,     \* self.current_page
    pg_disabled,      \* the disabled flag of each of the four controls
    pg_last,          \* the latest press and the page it was pressed on
    pg_pending        \* edit_message calls awaited and not yet answered

pg_vars == <<pg_pc, pg_embeds, current_page, pg_disabled, pg_last,
             pg_pending>>

\* utils/role_timers.py: parse_duration and format_duration applied in turn
VARIABLES
    dur_pc,           \* "idle", "parsed", "formatted", "reparsed"
    dur_input,        \* the string given to parse_duration
    dur_seconds,      \* what parse_duration returned or raised for it
    dur_text,         \* format_duration of those seconds
    dur_again         \* parse_duration of that text

dur_vars == <<dur_pc, dur_input, dur_seconds, dur_text, dur_again>>

\* format_duration (utils/role_timers.py) and format_timespan
\* (cogs/admin.py) applied to one number of seconds
VARIABLES
    fmt_pc,           \* "idle", "called", "formatted", "both"
    fmt_in,           \* the days, hours, minutes and seconds the number is made of
    fmt_secs,         \* the number of seconds
    fmt_text,         \* format_duration(fmt_secs)
    fmt_span          \* format_timespan(fmt_secs)

fmt_vars == <<fmt_pc, fmt_in, fmt_secs, fmt_text, fmt_span>>

\* cogs/staff_listings.py: one call of create_department_mid_staff_embed
VARIABLES
    ms_pc,            \* "idle", "called", "returned"
    ms_dept_role,     \* whether guild.get_role finds the department's role
    ms_roles,         \* member -> the roles the member holds
    ms_embed          \* the embed returned: its lines, or None

ms_vars == <<ms_pc, ms_dept_role, ms_roles, ms_embed>>

\* The staff-listings command group and its runtime switch.
VARIABLES
    sl_enabled,       \* the process-local switch of the feature
    sl_running,       \* whether the scheduled refresh task is running
    sl_pc,            \* "idle", "check", "body", "done"
    sl_call,          \* the command invoked, its author, the switch at invocation, the response
    sl_refreshes      \* the scheduled refreshes run so far

sl_vars == <<sl_enabled, sl_running, sl_pc, sl_call, sl_refreshes>>

\* The storage adapter and its connection.
VARIABLES
    db_adapters,      \* Database objects constructed so far (_db is None at 0)
    db_connection,    \* self._connection: 0 for None, else the connection's number
    db_opened,        \* connections aiosqlite.connect has opened so far
    db_pc,            \* per operation: "idle", "get_connection", "connecting",
                      \* "pragma", "execute"
    db_conn,          \* per operation: the connection _get_connection returned
    db_used           \* the connections queries have been executed on

db_vars == <<db_adapters, db_connection, db_opened, db_pc, db_conn, db_used>>

\* Two sweeps over one expired record.
VARIABLES
    ov_record,        \* the expired record (NoRow before it is set up)
    ov_in_table,      \* whether the record is still in the table
    ov_holds,         \* whether the member holds the record's role
    ov_pc,            \* per sweep: "idle", "listed", "remove_roles",
                      \* "notify_user", "notify_channel", "delete", "done"
    ov_issued         \* per kind of platform call: how many were issued

ov_vars == <<ov_record, ov_in_table, ov_holds, ov_pc, ov_issued>>

\* (variables of the further operations)
aux_vars == <<rb_vars, mod_vars, eh_vars, fun_vars, pg_vars, dur_vars, fmt_vars, ms_vars, sl_vars, db_vars, ov_vars>>
core_vars == <<world_vars, call_vars, sweep_vars, exp_vars, bot_vars>>
\* Every group but one.
not_rb_vars == <<core_vars, mod_vars, eh_vars, fun_vars, pg_vars, dur_vars, fmt_vars, ms_vars, sl_vars, db_vars, ov_vars>>
not_mod_vars == <<core_vars, rb_vars, eh_vars, fun_vars, pg_vars, dur_vars, fmt_vars, ms_vars, sl_vars, db_vars, ov_vars>>
not_eh_vars == <<core_vars, rb_vars, mod_vars, fun_vars, pg_vars, dur_vars, fmt_vars, ms_vars, sl_vars, db_vars, ov_vars>>
not_fun_vars == <<core_vars, rb_vars, mod_vars, eh_vars, pg_vars, dur_vars, fmt_vars, ms_vars, sl_vars, db_vars, ov_vars>>
not_pg_vars == <<core_vars, rb_vars, mod_vars, eh_vars, fun_vars, dur_vars, fmt_vars, ms_vars, sl_vars, db_vars, ov_vars>>
not_dur_vars == <<core_vars, rb_vars, mod_vars, eh_vars, fun_vars, pg_vars, fmt_vars, ms_vars, sl_vars, db_vars, ov_vars>>
not_fmt_vars == <<core_vars, rb_vars, mod_vars, eh_vars, fun_vars, pg_vars, dur_vars, ms_vars, sl_vars, db_vars, ov_vars>>
not_ms_vars == <<core_vars, rb_vars, mod_vars, eh_vars, fun_vars, pg_vars, dur_vars, fmt_vars, sl_vars, db_vars, ov_vars>>
not_sl_vars == <<core_vars, rb_vars, mod_vars, eh_vars, fun_vars, pg_vars, dur_vars, fmt_vars, ms_vars, db_vars, ov_vars>>
not_db_vars == <<core_vars, rb_vars, mod_vars, eh_vars, fun_vars, pg_vars, dur_vars, fmt_vars, ms_vars, sl_vars, ov_vars>>
not_ov_vars == <<core_vars, rb_vars, mod_vars, eh_vars, fun_vars, pg_vars, dur_vars, fmt_vars, ms_vars, sl_vars, db_vars>>

\* The flag combinations a caller passes: the defaults of the signature, and
\* a tracked-only grant with a notice channel.
CallFlags ==
    { [auto_remove |-> TRUE,  notify_user |-> TRUE,  notify_channel_id |-> None],
      [auto_remove |-> FALSE, notify_user |-> FALSE, notify_channel_id |-> NotifyChannelId] }

NoArgs == [member |-> "m1", role |-> 1, duration_seconds |-> 0,
           flags |-> [auto_remove |-> TRUE, notify_user |-> TRUE,
                      notify_channel_id |-> None]]

Row(id, user, role, expires, auto, notify, channel) ==
    [ id |-> id, guild_id |-> GuildId, user_id |-> user, role_id |-> role,
      expires_at |-> expires, auto_remove |-> auto, notify_user |-> notify,
      notify_channel_id |-> channel ]

NoRow == Row(0, "m1", 1, 0, 0, 0, None)

\* ------------------------------------------------ timed_role_model.py
\* A slip in the query: the comparison with the clock reversed.
get_active_roles_for_user_reversed(user_id) ==
    { r \in timed_roles : r.user_id = user_id /\ r.expires_at < now }

\* TimedRole.get_active_roles_for_user: WHERE user_id = ? AND expires_at > ?
get_active_roles_for_user(user_id) ==
    { r \in timed_roles : r.user_id = user_id /\ r.expires_at > now }

\* TimedRole.add_timed_role, the row it builds: expires_at =
\* int(time.time() + duration_seconds), the flags as 0/1 integers.
NewRow(id, a) ==
    Row(id, a.member, a.role, now + a.duration_seconds,
        IF a.flags.auto_remove THEN 1 ELSE 0,
        IF a.flags.notify_user THEN 1 ELSE 0,
        a.flags.notify_channel_id)

\* TimedRole.remove_timed_role / BaseModel.delete: DELETE ... WHERE id = ?
remove_timed_role(timed_role_id) ==
    { r \in timed_roles : r.id # timed_role_id }

\* ------------------------------------------------------ role_timers.py
\* A slip in the hierarchy check: '>' for '>='.
HierarchyBlocks_strict(role) == role > BotTopRole

\* role >= member.guild.me.top_role
HierarchyBlocks(role) == role >= BotTopRole

\* The caller invokes add_timed_role(member, role, duration_seconds, ...).
\* Nothing validates duration_seconds.
Call(c) ==
    /\ call_pc[c] = "idle"
    /\ \E m \in Members, r \in Roles, d \in 0..MaxDuration, f \in CallFlags :
          call_args' = [call_args EXCEPT ![c] =
              [member |-> m, role |-> r, duration_seconds |-> d, flags |-> f]]
    /\ call_pc' = [call_pc EXCEPT ![c] = "query"]
    /\ UNCHANGED <<call_result, call_returned, call_row, api_add_roles>>
    /\ UNCHANGED <<world_vars, sweep_vars, exp_vars, bot_vars>>
    /\ UNCHANGED aux_vars

\* Lines 40-54 from the answer of the uniqueness query to the next await:
\* the duplicate check, the hierarchy check, and the 'role not in
\* member.roles' test that decides whether member.add_roles is called.
UniquenessAndHierarchy(c) ==
    /\ call_pc[c] = "query"
    /\ LET a == call_args[c]
           existing_roles == get_active_roles_for_user(a.member)
       IN  IF \E e \in existing_roles : e.role_id = a.role
           THEN /\ call_pc' = [call_pc EXCEPT ![c] = "done"]
                /\ call_result' = [call_result EXCEPT ![c] = "ValueError:active"]
           ELSE IF HierarchyBlocks(a.role)
           THEN /\ call_pc' = [call_pc EXCEPT ![c] = "done"]
                /\ call_result' = [call_result EXCEPT ![c] = "ValueError:hierarchy"]
           ELSE /\ call_pc' = [call_pc EXCEPT ![c] =
                       IF <<a.member, a.role>> \notin member_roles
                       THEN "add_roles" ELSE "insert"]
                /\ UNCHANGED call_result
    /\ UNCHANGED <<call_args, call_returned, call_row, api_add_roles>>
    /\ UNCHANGED <<world_vars, sweep_vars, exp_vars, bot_vars>>
    /\ UNCHANGED aux_vars

\* Line 54: await member.add_roles(role, ...). The platform grants the role,
\* or refuses (disnake.Forbidden propagates to the caller).
AddRoles(c) ==
    /\ call_pc[c] = "add_roles"
    /\ api_add_roles' = api_add_roles \cup {c}
    /\ \/ /\ member_roles' = member_roles \cup
                 {<<call_args[c].member, call_args[c].role>>}
          /\ call_pc' = [call_pc EXCEPT ![c] = "insert"]
          /\ UNCHANGED call_result
       \/ /\ call_pc' = [call_pc EXCEPT ![c] = "done"]
          /\ call_result' = [call_result EXCEPT ![c] = "Forbidden"]
          /\ UNCHANGED member_roles
    /\ UNCHANGED <<now, timed_roles, next_id, last_insert_rowid,
                   guild_ok, guild_members, guild_roles>>
    /\ UNCHANGED <<call_args, call_returned, call_row>>
    /\ UNCHANGED <<sweep_vars, exp_vars, bot_vars>>
    /\ UNCHANGED aux_vars

\* Lines 60-71, TimedRole.add_timed_role lines 47-68: the row is built and
\* inserted (BaseModel.create, Database.execute). The insert may fail; the
\* error is logged by Database.execute and re-raised, and nothing takes the
\* role back.
Insert(c) ==
    /\ call_pc[c] = "insert"
    /\ \/ /\ timed_roles' = timed_roles \cup {NewRow(next_id, call_args[c])}
          /\ last_insert_rowid' = next_id
          /\ next_id' = next_id + 1
          /\ call_row' = [call_row EXCEPT ![c] = next_id]
          /\ call_pc' = [call_pc EXCEPT ![c] = "read_back"]
          /\ UNCHANGED call_result
       \/ /\ call_pc' = [call_pc EXCEPT ![c] = "done"]
          /\ call_result' = [call_result EXCEPT ![c] = "DatabaseError"]
          /\ UNCHANGED <<timed_roles, last_insert_rowid, next_id, call_row>>
    /\ UNCHANGED <<now, member_roles, guild_ok, guild_members, guild_roles>>
    /\ UNCHANGED <<call_args, call_returned, api_add_roles>>
    /\ UNCHANGED <<sweep_vars, exp_vars, bot_vars>>
    /\ UNCHANGED aux_vars

\* TimedRole.add_timed_role lines 70-76: SELECT last_insert_rowid() on the
\* shared connection, returned as the id of the created record.
ReadBack(c) ==
    /\ call_pc[c] = "read_back"
    /\ call_returned' = [call_returned EXCEPT ![c] = last_insert_rowid]
    /\ call_result' = [call_result EXCEPT ![c] = "ok"]
    /\ call_pc' = [call_pc EXCEPT ![c] = "done"]
    /\ UNCHANGED <<call_args, call_row, api_add_roles>>
    /\ UNCHANGED <<world_vars, sweep_vars, exp_vars, bot_vars>>
    /\ UNCHANGED aux_vars

\* ------------------------------------------------------ cogs/role_timer.py
\* What 'time.time()' evaluates to in cogs/role_timer.py. Line 5 imports the
\* time module, line 7 ('from datetime import datetime, time') rebinds the
\* name to the class datetime.time, which has no attribute 'time': the call
\* raises AttributeError.
time_time == "AttributeError"

\* bot.get_guild, guild.get_member, guild.get_role: whether the id resolves.
get_guild(guild_id) == guild_ok /\ guild_id = GuildId
get_member(user_id) == user_id \in guild_members
\* A slip: the role lookup taken to succeed always.
get_role_unchecked(role_id) == role_id \in Roles
get_role(role_id) == role_id \in guild_roles

\* An invocation of check_timed_roles begins: role_check_task awaits it at
\* line 30 and check_expired at line 295.
SweepStart ==
    /\ sweep_pc = "idle"
    /\ sweep_pc' = "running"
    /\ UNCHANGED error_log
    /\ UNCHANGED <<world_vars, call_vars, exp_vars, bot_vars>>
    /\ UNCHANGED aux_vars

\* check_timed_roles, lines 38-92. The first statement of the try block,
\* line 41, is current_time = int(time.time()): it raises, the except
\* clause of lines 90-92 logs the error, and the coroutine returns. No row
\* is read and none is processed; lines 43-88 are never reached.
check_timed_roles ==
    /\ sweep_pc = "running"
    /\ IF time_time = "AttributeError"
       THEN /\ error_log' = IF error_log < MaxLog THEN error_log + 1 ELSE error_log
            /\ sweep_pc' = "idle"
       ELSE /\ sweep_pc' = "fetch"
            /\ UNCHANGED error_log
    /\ UNCHANGED <<world_vars, call_vars, exp_vars, bot_vars>>
    /\ UNCHANGED aux_vars

\* _process_expired_role, lines 136-171: the step that follows the role
\* removal, and the one that follows the direct message.
AfterNotifyUser(r) ==
    IF r.notify_channel_id # None THEN "notify_channel" ELSE "delete"

AfterRemove(r) ==
    IF r.notify_user = 1 THEN "notify_user" ELSE AfterNotifyUser(r)

\* The start of expiry processing with the test of has_role inverted: the
\* role is removed only from a member who does not hold it.
ExpStart_inverted ==
    /\ exp_pc = "idle"
    /\ \E r \in timed_roles :
        /\ r.expires_at <= now
        /\ exp_record' = r
        /\ api_log' = {}
        /\ exp_unresolved' = ~(guild_ok /\ r.user_id \in guild_members
                                 /\ r.role_id \in guild_roles)
        /\ IF ~get_guild(r.guild_id) \/ ~get_member(r.user_id)
              \/ ~get_role(r.role_id)
           THEN /\ exp_pc' = "delete_unresolved"
                /\ exp_has_role' = FALSE
           ELSE LET has_role == <<r.user_id, r.role_id>> \in member_roles
                IN  /\ exp_has_role' = has_role
                    /\ exp_pc' = IF r.auto_remove = 1 /\ ~has_role
                                 THEN "remove_roles" ELSE AfterRemove(r)
    /\ UNCHANGED <<world_vars, call_vars, sweep_vars, bot_vars>>
    /\ UNCHANGED aux_vars

\* _process_expired_role(record), lines 96-126, up to its first await. It is
\* handed a record whose expires_at <= now.
ExpStart ==
    /\ exp_pc = "idle"
    /\ \E r \in timed_roles :
        /\ r.expires_at <= now
        /\ exp_record' = r
        /\ api_log' = {}
        /\ exp_unresolved' = ~(guild_ok /\ r.user_id \in guild_members
                                 /\ r.role_id \in guild_roles)
        /\ IF ~get_guild(r.guild_id) \/ ~get_member(r.user_id)
              \/ ~get_role(r.role_id)
           THEN /\ exp_pc' = "delete_unresolved"
                /\ exp_has_role' = FALSE
           ELSE LET has_role == <<r.user_id, r.role_id>> \in member_roles
                IN  /\ exp_has_role' = has_role
                    /\ exp_pc' = IF r.auto_remove = 1 /\ has_role
                                 THEN "remove_roles" ELSE AfterRemove(r)
    /\ UNCHANGED <<world_vars, call_vars, sweep_vars, bot_vars>>
    /\ UNCHANGED aux_vars

\* Lines 102-103, 112-113, 119-120: await remove_timed_role; return.
ExpDeleteUnresolved ==
    /\ exp_pc = "delete_unresolved"
    /\ timed_roles' = remove_timed_role(exp_record.id)
    /\ exp_pc' = "done"
    /\ UNCHANGED <<now, next_id, last_insert_rowid, member_roles, guild_ok,
                   guild_members, guild_roles>>
    /\ UNCHANGED <<exp_record, exp_has_role, exp_unresolved, api_log>>
    /\ UNCHANGED <<call_vars, sweep_vars, bot_vars>>
    /\ UNCHANGED aux_vars

\* The role removal with the handler of Forbidden left out: the refusal
\* reaches the outer except like any other failure.
ExpRemoveRoles_forbidden_uncaught ==
    /\ exp_pc = "remove_roles"
    /\ \/ /\ member_roles' = member_roles \ {<<exp_record.user_id, exp_record.role_id>>}
          /\ api_log' = api_log \cup {"remove_roles"}
          /\ exp_pc' = AfterRemove(exp_record)
       \/ /\ api_log' = api_log \cup {"remove_roles", "remove_roles Forbidden"}
          /\ exp_pc' = "done"
          /\ UNCHANGED member_roles
       \/ /\ api_log' = api_log \cup {"remove_roles", "remove_roles failed"}
          /\ exp_pc' = "done"
          /\ UNCHANGED member_roles
    /\ UNCHANGED <<now, timed_roles, next_id, last_insert_rowid, guild_ok,
                   guild_members, guild_roles>>
    /\ UNCHANGED <<exp_record, exp_has_role, exp_unresolved>>
    /\ UNCHANGED <<call_vars, sweep_vars, bot_vars>>
    /\ UNCHANGED aux_vars

\* Lines 127-134: await member.remove_roles. The platform removes the role;
\* or answers Forbidden, which is caught and logged, and processing goes on;
\* or fails otherwise, which only the outer except of lines 176-178 catches:
\* processing ends there and the record stays.
ExpRemoveRoles ==
    /\ exp_pc = "remove_roles"
    /\ \/ /\ member_roles' = member_roles \ {<<exp_record.user_id, exp_record.role_id>>}
          /\ api_log' = api_log \cup {"remove_roles"}
          /\ exp_pc' = AfterRemove(exp_record)
       \/ /\ api_log' = api_log \cup {"remove_roles", "remove_roles Forbidden"}
          /\ exp_pc' = AfterRemove(exp_record)
          /\ UNCHANGED member_roles
       \/ /\ api_log' = api_log \cup {"remove_roles", "remove_roles failed"}
          /\ exp_pc' = "done"
          /\ UNCHANGED member_roles
    /\ UNCHANGED <<now, timed_roles, next_id, last_insert_rowid, guild_ok,
                   guild_members, guild_roles>>
    /\ UNCHANGED <<exp_record, exp_has_role, exp_unresolved>>
    /\ UNCHANGED <<call_vars, sweep_vars, bot_vars>>
    /\ UNCHANGED aux_vars

\* Lines 137-167: await member.send(embed). Delivered; or Forbidden (DMs
\* closed): with a notify channel that resolves and that the bot may write
\* to, a note is posted there; or another failure, logged and swallowed.
ExpNotifyUser ==
    /\ exp_pc = "notify_user"
    /\ \/ /\ api_log' = api_log \cup {"dm"}
          /\ exp_pc' = AfterNotifyUser(exp_record)
       \/ /\ api_log' = api_log \cup {"dm", "dm Forbidden"}
          /\ exp_pc' = IF exp_record.notify_channel_id # None
                       THEN "dm_note" ELSE AfterNotifyUser(exp_record)
       \/ /\ api_log' = api_log \cup {"dm", "dm failed"}
          /\ exp_pc' = AfterNotifyUser(exp_record)
    /\ UNCHANGED <<exp_record, exp_has_role, exp_unresolved>>
    /\ UNCHANGED <<world_vars, call_vars, sweep_vars, bot_vars>>
    /\ UNCHANGED aux_vars

\* Lines 157-164: with a channel that resolves and that the bot may write
\* to, await channel.send(note); its failure is swallowed (163-164).
ExpDmNote ==
    /\ exp_pc = "dm_note"
    /\ \/ UNCHANGED api_log
       \/ api_log' = api_log \cup {"dm_note"}
    /\ exp_pc' = AfterNotifyUser(exp_record)
    /\ UNCHANGED <<exp_record, exp_has_role, exp_unresolved>>
    /\ UNCHANGED <<world_vars, call_vars, sweep_vars, bot_vars>>
    /\ UNCHANGED aux_vars

\* Lines 170-171, _send_expiry_notification lines 180-227: without a channel
\* that resolves and that the bot may write to it returns; otherwise it
\* posts the notice, and a failure to post is logged and swallowed.
ExpNotifyChannel ==
    /\ exp_pc = "notify_channel"
    /\ \/ api_log' = api_log \cup {"notify_channel"}
       \/ api_log' = api_log \cup {"notify_channel", "notice"}
       \/ api_log' = api_log \cup {"notify_channel", "notice", "notice failed"}
    /\ exp_pc' = "delete"
    /\ UNCHANGED <<exp_record, exp_has_role, exp_unresolved>>
    /\ UNCHANGED <<world_vars, call_vars, sweep_vars, bot_vars>>
    /\ UNCHANGED aux_vars

\* Lines 173-174: await TimedRole.remove_timed_role(record["id"]).
ExpDelete ==
    /\ exp_pc = "delete"
    /\ timed_roles' = remove_timed_role(exp_record.id)
    /\ exp_pc' = "done"
    /\ UNCHANGED <<now, next_id, last_insert_rowid, member_roles, guild_ok,
                   guild_members, guild_roles>>
    /\ UNCHANGED <<exp_record, exp_has_role, exp_unresolved, api_log>>
    /\ UNCHANGED <<call_vars, sweep_vars, bot_vars>>
    /\ UNCHANGED aux_vars

\* The coroutine has returned; the next record may be handed over.
ExpReturn ==
    /\ exp_pc = "done"
    /\ exp_pc' = "idle"
    /\ exp_record' = NoRow
    /\ exp_has_role' = FALSE
    /\ exp_unresolved' = FALSE
    /\ api_log' = {}
    /\ UNCHANGED <<world_vars, call_vars, sweep_vars, bot_vars>>
    /\ UNCHANGED aux_vars

\* ------------------------------------------------------- the environment
\* A second passes.
Tick ==
    /\ now < MaxTime
    /\ now' = now + 1
    /\ UNCHANGED <<timed_roles, next_id, last_insert_rowid, member_roles,
                   guild_ok, guild_members, guild_roles>>
    /\ UNCHANGED <<call_vars, sweep_vars, exp_vars, bot_vars>>
    /\ UNCHANGED aux_vars

\* A moderator takes a role away from a member by hand.
ManualRemove ==
    /\ \E p \in member_roles : member_roles' = member_roles \ {p}
    /\ UNCHANGED <<now, timed_roles, next_id, last_insert_rowid,
                   guild_ok, guild_members, guild_roles>>
    /\ UNCHANGED <<call_vars, sweep_vars, exp_vars, bot_vars>>
    /\ UNCHANGED aux_vars

\* While a record is being processed, somebody gives its role to its member
\* again (by hand, or by a new grant of the pair).
AssignedAgain ==
    /\ exp_pc \notin {"idle", "done"}
    /\ get_member(exp_record.user_id)
    /\ get_role(exp_record.role_id)
    /\ <<exp_record.user_id, exp_record.role_id>> \notin member_roles
    /\ member_roles' = member_roles \cup {<<exp_record.user_id, exp_record.role_id>>}
    /\ api_log' = api_log \cup {"assigned again"}
    /\ UNCHANGED <<now, timed_roles, next_id, last_insert_rowid,
                   guild_ok, guild_members, guild_roles>>
    /\ UNCHANGED <<exp_pc, exp_record, exp_has_role, exp_unresolved>>
    /\ UNCHANGED <<call_vars, sweep_vars, bot_vars>>
    /\ UNCHANGED aux_vars

\* The bot is removed from the server.
GuildGone ==
    /\ guild_ok
    /\ guild_ok' = FALSE
    /\ UNCHANGED <<now, timed_roles, next_id, last_insert_rowid, member_roles,
                   guild_members, guild_roles>>
    /\ UNCHANGED <<call_vars, sweep_vars, exp_vars, bot_vars>>
    /\ UNCHANGED aux_vars

\* A member leaves the server, and holds none of its roles any more.
MemberLeaves ==
    /\ \E m \in guild_members :
        /\ guild_members' = guild_members \ {m}
        /\ member_roles' = { p \in member_roles : p[1] # m }
    /\ UNCHANGED <<now, timed_roles, next_id, last_insert_rowid, guild_ok,
                   guild_roles>>
    /\ UNCHANGED <<call_vars, sweep_vars, exp_vars, bot_vars>>
    /\ UNCHANGED aux_vars

\* A role is deleted from the server; nobody holds it any more.
RoleDeleted ==
    /\ \E r \in guild_roles :
        /\ r \in { t.role_id : t \in timed_roles }
        /\ guild_roles' = guild_roles \ {r}
        /\ member_roles' = { p \in member_roles : p[2] # r }
    /\ UNCHANGED <<now, timed_roles, next_id, last_insert_rowid, guild_ok,
                   guild_members>>
    /\ UNCHANGED <<call_vars, sweep_vars, exp_vars, bot_vars>>
    /\ UNCHANGED aux_vars

\* ------------------------------------- cogs/staff_listings.py: a refresh
\* The first step of every full refresh: self.permission_errors.clear(),
\* then update_high_staff_listings begins with the first channel
\* (lines 38-42, 688-694, 852-858).
StartRefresh(t) ==
    /\ permission_errors' = {}
    /\ ref_pc' = [ref_pc EXCEPT ![t] = "clear"]
    /\ ref_chan' = [ref_chan EXCEPT ![t] = 1]
    /\ ref_failed' = [ref_failed EXCEPT ![t] = {}]

\* After a refresh is through with its channel: update_department_listings
\* goes on with the next channel, and after the last one the refresh reports.
AfterChannel(i) == IF i < Len(ChannelOrder) THEN "clear" ELSE "end"
NextChannel(i) == IF i < Len(ChannelOrder) THEN i + 1 ELSE 0

\* clear_channel's Forbidden left uncaught by the refresh: it leaves the
\* iteration, and the loop ends with it.
ClearChannel_uncaught(t) ==
    /\ ref_pc[t] = "clear"
    /\ LET i == ref_chan[t]
           ch == ChannelOrder[i]
       IN  IF ch \in forbidden
           THEN /\ ref_failed' = [ref_failed EXCEPT ![t] = @ \cup {ch}]
                /\ ref_pc' = [ref_pc EXCEPT ![t] = "raised"]
                /\ UNCHANGED <<ref_chan, permission_errors, channel_msgs>>
           ELSE /\ channel_msgs' = [channel_msgs EXCEPT ![ch] = {}]
                /\ ref_pc' = [ref_pc EXCEPT ![t] = "send"]
                /\ UNCHANGED <<ref_chan, permission_errors, ref_failed>>
    /\ UNCHANGED <<update_lock, forbidden>>
    /\ UNCHANGED <<world_vars, call_vars, sweep_vars, exp_vars, life_vars>>
    /\ UNCHANGED aux_vars

\* clear_channel, lines 343-372, called at lines 98 and 130. Without the
\* permissions it raises disnake.Forbidden, which lines 105-107 and 137-139
\* record in self.permission_errors before the refresh goes on.
ClearChannel(t) ==
    /\ ref_pc[t] = "clear"
    /\ LET i == ref_chan[t]
           ch == ChannelOrder[i]
       IN  IF ch \in forbidden
           THEN /\ permission_errors' = permission_errors \cup {ch}
                /\ ref_failed' = [ref_failed EXCEPT ![t] = @ \cup {ch}]
                /\ ref_pc' = [ref_pc EXCEPT ![t] = AfterChannel(i)]
                /\ ref_chan' = [ref_chan EXCEPT ![t] = NextChannel(i)]
                /\ UNCHANGED channel_msgs
           ELSE /\ channel_msgs' = [channel_msgs EXCEPT ![ch] = {}]
                /\ ref_pc' = [ref_pc EXCEPT ![t] = "send"]
                /\ UNCHANGED <<ref_chan, permission_errors, ref_failed>>
    /\ UNCHANGED <<update_lock, forbidden>>
    /\ UNCHANGED <<world_vars, call_vars, sweep_vars, exp_vars, life_vars>>
    /\ UNCHANGED aux_vars

\* send_high_staff_embeds and send_department_embeds, lines 431-463, or
\* send_department_specific_embeds, lines 144-171: the channel now shows
\* the listings of this refresh.
SendEmbeds(t) ==
    /\ ref_pc[t] = "send"
    /\ LET i == ref_chan[t]
           ch == ChannelOrder[i]
       IN  /\ channel_msgs' = [channel_msgs EXCEPT ![ch] = @ \cup {t}]
           /\ ref_pc' = [ref_pc EXCEPT ![t] = AfterChannel(i)]
           /\ ref_chan' = [ref_chan EXCEPT ![t] = NextChannel(i)]
    /\ UNCHANGED <<update_lock, permission_errors, forbidden, ref_failed>>
    /\ UNCHANGED <<world_vars, call_vars, sweep_vars, exp_vars, life_vars>>
    /\ UNCHANGED aux_vars

\* update_staff, lines 676-716: the command takes no lock (lines 685-697).
update_staff ==
    /\ bot_ready
    /\ ref_pc["command"] = "idle"
    /\ StartRefresh("command")
    /\ UNCHANGED <<update_lock, channel_msgs, forbidden>>
    /\ UNCHANGED <<world_vars, call_vars, sweep_vars, exp_vars, life_vars>>
    /\ UNCHANGED aux_vars

\* update_staff, lines 699-713: the command reports and ends.
update_staff_end ==
    /\ ref_pc["command"] = "end"
    /\ ref_pc' = [ref_pc EXCEPT !["command"] = "idle"]
    /\ UNCHANGED <<ref_chan, update_lock, permission_errors, channel_msgs,
                   forbidden, ref_failed>>
    /\ UNCHANGED <<world_vars, call_vars, sweep_vars, exp_vars, life_vars>>
    /\ UNCHANGED aux_vars

\* on_member_update, lines 813-829, and on_member_remove, lines 831-842, for
\* a member with a staff role: if not self.update_lock.locked(), the handler
\* takes the lock and calls update_listings_now (lines 844-858); with the
\* lock held the event is dropped.
MemberEvent(t) ==
    /\ bot_ready
    /\ ref_pc[t] = "idle"
    /\ update_lock = "free"
    /\ update_lock' = t
    /\ StartRefresh(t)
    /\ UNCHANGED <<channel_msgs, forbidden>>
    /\ UNCHANGED <<world_vars, call_vars, sweep_vars, exp_vars, life_vars>>
    /\ UNCHANGED aux_vars

\* on_member_update line 825, on_member_remove line 838: the lock is held,
\* so the handler returns; nothing is queued and nothing waits.
MemberEventDropped(t) ==
    /\ bot_ready
    /\ update_lock # "free"
    /\ UNCHANGED <<world_vars, call_vars, sweep_vars, exp_vars, bot_vars>>
    /\ UNCHANGED aux_vars

\* The lock taken with acquire() and released by a release() at the end of
\* the block, without try/finally: a refresh that met a failure leaves it held.
MemberEventEnd_release_skipped(t) ==
    /\ ref_pc[t] = "end"
    /\ ref_pc' = [ref_pc EXCEPT ![t] = "idle"]
    /\ update_lock' = IF update_lock = t /\ ref_failed[t] = {}
                      THEN "free" ELSE update_lock
    /\ UNCHANGED <<ref_chan, permission_errors, channel_msgs, forbidden,
                   ref_failed>>
    /\ UNCHANGED <<world_vars, call_vars, sweep_vars, exp_vars, life_vars>>
    /\ UNCHANGED aux_vars

\* update_listings_now returns and the async with block releases the lock.
MemberEventEnd(t) ==
    /\ ref_pc[t] = "end"
    /\ ref_pc' = [ref_pc EXCEPT ![t] = "idle"]
    /\ update_lock' = IF update_lock = t THEN "free" ELSE update_lock
    /\ UNCHANGED <<ref_chan, permission_errors, channel_msgs, forbidden,
                   ref_failed>>
    /\ UNCHANGED <<world_vars, call_vars, sweep_vars, exp_vars, life_vars>>
    /\ UNCHANGED aux_vars

\* ------------------------------------------- the cogs and their schedules
\* __init__: StaffListings starts its loop (staff_listings.py line 19), and
\* the loop's before_loop hook waits for readiness; RoleTimer starts nothing
\* (role_timer.py lines 18-21), and nothing else starts role_check_task.
LoopAfterInit(c) == IF c = "staff_listings" THEN "before_loop" ELSE "unstarted"

\* cog_unload: StaffListings cancels its loop (staff_listings.py line 25);
\* RoleTimer calls self.check_timed_roles.cancel() (role_timer.py line 24),
\* and a coroutine method has no attribute cancel: AttributeError, and
\* role_check_task is left as it was.
cog_unload_raises(c) == c = "role_timer"
LoopAfterUnload(c, s) == IF c = "staff_listings" THEN "cancelled" ELSE s

\* main.py, on_ready (lines 93-155): the gateway is ready.
on_ready ==
    /\ ~bot_ready
    /\ bot_ready' = TRUE
    /\ UNCHANGED <<cog_gen, loop_state, prev_loop_state, unload_error>>
    /\ UNCHANGED <<world_vars, call_vars, sweep_vars, exp_vars, staff_vars>>
    /\ UNCHANGED aux_vars

\* before_role_check_task (role_timer.py lines 32-36) and
\* before_update_staff_listings (staff_listings.py lines 338-341):
\* wait_until_ready() returns and the first iteration is due.
before_loop(c) ==
    /\ loop_state[c] = "before_loop"
    /\ bot_ready
    /\ loop_state' = [loop_state EXCEPT ![c] = "sleeping"]
    /\ UNCHANGED <<bot_ready, cog_gen, prev_loop_state, unload_error>>
    /\ UNCHANGED <<world_vars, call_vars, sweep_vars, exp_vars, staff_vars>>
    /\ UNCHANGED aux_vars

\* An iteration of the cog's loop begins: update_staff_listings
\* (staff_listings.py lines 27-42, no lock taken) starts a refresh;
\* role_check_task (role_timer.py lines 26-30) calls check_timed_roles.
LoopIteration(c) ==
    /\ loop_state[c] = "sleeping"
    /\ loop_state' = [loop_state EXCEPT ![c] = "running"]
    /\ IF c = "staff_listings"
       THEN /\ ref_pc["tick"] = "idle"
            /\ StartRefresh("tick")
            /\ UNCHANGED <<update_lock, channel_msgs, forbidden>>
            /\ UNCHANGED sweep_vars
       ELSE /\ sweep_pc = "idle"
            /\ sweep_pc' = "running"
            /\ UNCHANGED <<error_log, staff_vars>>
    /\ UNCHANGED <<bot_ready, cog_gen, prev_loop_state, unload_error>>
    /\ UNCHANGED <<world_vars, call_vars, exp_vars>>
    /\ UNCHANGED aux_vars

\* The iteration returns and the loop sleeps for its 30 minutes
\* (staff_listings.py lines 47-84; role_timer.py line 30).
LoopIterationEnd(c) ==
    /\ loop_state[c] = "running"
    /\ loop_state' = [loop_state EXCEPT ![c] = "sleeping"]
    /\ IF c = "staff_listings"
       THEN /\ ref_pc["tick"] = "end"
            /\ ref_pc' = [ref_pc EXCEPT !["tick"] = "idle"]
            /\ UNCHANGED <<ref_chan, update_lock, permission_errors,
                           channel_msgs, forbidden, ref_failed>>
       ELSE /\ sweep_pc = "idle"
            /\ UNCHANGED staff_vars
    /\ UNCHANGED <<bot_ready, cog_gen, prev_loop_state, unload_error>>
    /\ UNCHANGED <<world_vars, call_vars, sweep_vars, exp_vars>>
    /\ UNCHANGED aux_vars

\* The unload and the load of the cogs in S, as the reload command does them
\* (admin.py lines 320-358): cog_unload of the old instance, then __init__
\* of a new one, with a new lock and a new permission_errors set. The
\* cancelled loop's iteration stops at its await.
Reloaded(S) ==
    /\ bot_ready
    /\ \A c \in S : cog_gen[c] < MaxReloads
    /\ cog_gen' = [c \in Cogs |-> IF c \in S THEN cog_gen[c] + 1 ELSE cog_gen[c]]
    /\ unload_error' = (unload_error \ S) \cup {c \in S : cog_unload_raises(c)}
    /\ prev_loop_state' =
          [c \in Cogs |-> IF c \in S THEN LoopAfterUnload(c, loop_state[c])
                                     ELSE prev_loop_state[c]]
    /\ loop_state' =
          [c \in Cogs |-> IF c \in S THEN LoopAfterInit(c) ELSE loop_state[c]]
    /\ IF "staff_listings" \in S
       THEN /\ ref_pc' = [ref_pc EXCEPT !["tick"] = "idle"]
            /\ ref_chan' = [ref_chan EXCEPT !["tick"] = 0]
            /\ update_lock' = "free"
            /\ permission_errors' = {}
       ELSE UNCHANGED <<ref_pc, ref_chan, update_lock, permission_errors>>
    /\ UNCHANGED <<bot_ready, channel_msgs, forbidden, ref_failed>>
    /\ UNCHANGED <<world_vars, call_vars, sweep_vars, exp_vars>>
    /\ UNCHANGED aux_vars

\* reload with extension "all", admin.py lines 320-348.
reload_all == Reloaded(Cogs)

\* reload with one extension's name, admin.py lines 350-358.
reload_extension(c) == Reloaded({c})

\* check_expired, role_timer.py lines 283-301: line 294, start_time =
\* time.time(), raises inside the try block before check_timed_roles is
\* called, and lines 299-301 log and report the error.
check_expired ==
    /\ bot_ready
    /\ IF time_time = "AttributeError"
       THEN /\ error_log' = IF error_log < MaxLog THEN error_log + 1 ELSE error_log
            /\ UNCHANGED sweep_pc
       ELSE /\ sweep_pc = "idle"
            /\ sweep_pc' = "running"
            /\ UNCHANGED error_log
    /\ UNCHANGED <<world_vars, call_vars, exp_vars, bot_vars>>
    /\ UNCHANGED aux_vars

\* ------------------- cogs/staff_listings.py: one refresh, call by call
\* A slip in send_high_staff_embeds: two embeds sent in the other order.
send_high_staff_embeds_swapped ==
    <<"chief_doctor", "hospital_managers", "deputy_chiefs", "department_heads">>

\* The embeds of a channel in the order the code creates and sends them:
\* send_high_staff_embeds (lines 431-455), send_department_embeds (lines
\* 457-463, the summary of a department is named by the department), and
\* send_department_specific_embeds (lines 144-171).
send_high_staff_embeds ==
    <<"chief_doctor", "deputy_chiefs", "hospital_managers", "department_heads">>
send_department_embeds == Departments
send_department_specific_embeds ==
    <<"curator", "head", "deputy_heads", "mid_staff">>

\* update_high_staff_listings lines 101-102; update_department_listings
\* line 133.
SlotsOf(ch) ==
    IF ch = "high"
    THEN send_high_staff_embeds \o send_department_embeds
    ELSE send_department_specific_embeds

RbSlotNames == {"chief_doctor", "deputy_chiefs", "hospital_managers",
                "department_heads", "curator", "head", "deputy_heads",
                "mid_staff", "HAD", "PM", "-"}
RbChannelSet == {RbChannels[i] : i \in 1..Len(RbChannels)}
RbPairs == {<<ch, SlotsOf(ch)[k]>> : ch \in RbChannelSet, k \in 1..4}
             \cup {<<"high", Departments[k]>> : k \in 1..Len(Departments)}

\* The call that fails: the n-th call of kind op on channel ch raises kind.
NoFail == [op |-> "none", ch |-> "high", n |-> 1, kind |-> "none"]
RbFails ==
    {NoFail} \cup
    [op : {"history", "purge", "delete", "send"}, ch : RbChannelSet,
     n : {1}, kind : {"Forbidden", "HTTPException"}] \cup
    [op : {"delete"}, ch : RbChannelSet, n : {2},
     kind : {"Forbidden", "HTTPException"}]

\* The settings: nothing special; or one embed comes out None; or one call
\* fails; or one channel does not resolve; or no embed can be built.
RbInputs ==
    { [missing |-> {}, fail |-> f, unresolved |-> {}] : f \in RbFails } \cup
    { [missing |-> {p}, fail |-> NoFail, unresolved |-> {}] : p \in RbPairs } \cup
    { [missing |-> {}, fail |-> NoFail, unresolved |-> {ch}] : ch \in RbChannelSet } \cup
    { [missing |-> RbPairs, fail |-> NoFail, unresolved |-> {}] }

NoInput == [missing |-> {}, fail |-> NoFail, unresolved |-> {}]

RbEntry(op, ch, slot) == [op |-> op, ch |-> ch, slot |-> slot]

\* How many calls of kind op the log holds for channel ch.
RbCount(log, op, ch) ==
    Cardinality({i \in 1..Len(log) : log[i].op = op /\ log[i].ch = ch})

\* Whether the call about to be issued is the one that fails.
RbFailsNow(op, ch) ==
    /\ rb_input.fail.op = op
    /\ rb_input.fail.ch = ch
    /\ rb_input.fail.n = RbCount(rb_log, op, ch) + 1

\* guild.get_channel, lines 90 and 123: the first channel from index i on
\* that resolves, 0 when there is none.
NextResolved(i) ==
    LET S == {j \in i..Len(RbChannels) : RbChannels[j] \notin rb_input.unresolved}
    IN  IF S = {} THEN 0 ELSE CHOOSE j \in S : \A k \in S : j <= k

\* The refresh goes on with the channels from index i on.
RbGoOn(i) ==
    LET j == NextResolved(i)
    IN  /\ rb_chan' = j
        /\ rb_pc' = IF j = 0 THEN "done" ELSE "history"
        /\ rb_slot' = 0

RbFail_swallowed(kind) ==
    IF rb_mode = "clear"
    THEN /\ rb_pc' = "returned"
         /\ UNCHANGED <<rb_chan, rb_slot, rb_errors, rb_raised>>
    ELSE /\ rb_errors' = IF kind = "Forbidden"
                         THEN rb_errors \cup {RbChannels[rb_chan]}
                         ELSE rb_errors
         /\ RbGoOn(rb_chan + 1)
         /\ UNCHANGED rb_raised

\* An exception leaves clear_channel or a send. clear_channel alone: it
\* reaches the caller unchanged (lines 366-372; helper.py lines 41-47). In
\* a refresh: Forbidden is recorded and any other is logged (lines 105-110,
\* 137-142), and the refresh goes on with the next channel.
RbFail(kind) ==
    IF rb_mode = "clear"
    THEN /\ rb_pc' = "raised"
         /\ rb_raised' = kind
         /\ UNCHANGED <<rb_chan, rb_slot, rb_errors>>
    ELSE /\ rb_errors' = IF kind = "Forbidden"
                         THEN rb_errors \cup {RbChannels[rb_chan]}
                         ELSE rb_errors
         /\ RbGoOn(rb_chan + 1)
         /\ UNCHANGED rb_raised

\* clear_channel has returned.
RbAfterClear ==
    IF rb_mode = "clear"
    THEN /\ rb_pc' = "returned"
         /\ UNCHANGED <<rb_chan, rb_slot>>
    ELSE /\ rb_pc' = "send"
         /\ rb_slot' = 1
         /\ UNCHANGED rb_chan

Min(a, b) == IF a < b THEN a ELSE b

\* The channels as a clear may find them.
RbContents == [recent : 0..MaxRecent, old : 0..MaxOld]

\* clear_channel(channel) is called on its own (helper.py line 10;
\* staff_listings.py line 343).
RbClearStart ==
    /\ rb_pc = "idle"
    /\ \E i \in 1..Len(RbChannels), c \in RbContents, f \in RbFails :
          /\ f.ch = RbChannels[i]
          /\ f.op # "send"
          /\ rb_chan' = i
          /\ rb_msgs' = [rb_msgs EXCEPT ![RbChannels[i]] = c]
          /\ rb_input' = [missing |-> {}, fail |-> f, unresolved |-> {}]
    /\ rb_mode' = "clear"
    /\ rb_pc' = "history"
    /\ UNCHANGED <<rb_recent, rb_older, rb_slot, rb_log, rb_errors, rb_raised>>
    /\ UNCHANGED not_rb_vars

\* A full refresh begins: self.permission_errors.clear(), then
\* update_high_staff_listings (lines 38-42, 688-693, 852-856).
RbRefreshStart ==
    /\ rb_pc = "idle"
    /\ \E inp \in RbInputs :
          /\ rb_input' = inp
          /\ LET j == CHOOSE j \in 0..Len(RbChannels) :
                        \/ /\ j > 0
                           /\ RbChannels[j] \notin inp.unresolved
                           /\ \A k \in 1..(j - 1) : RbChannels[k] \in inp.unresolved
                        \/ /\ j = 0
                           /\ \A k \in 1..Len(RbChannels) :
                                 RbChannels[k] \in inp.unresolved
             IN  /\ rb_chan' = j
                 /\ rb_pc' = IF j = 0 THEN "done" ELSE "history"
    /\ \E c \in [recent : {0, MaxRecent}, old : {0, MaxOld}] :
          rb_msgs' = [ch \in RbChannelSet |-> c]
    /\ rb_mode' = "refresh"
    /\ rb_errors' = {}
    /\ UNCHANGED <<rb_recent, rb_older, rb_slot, rb_log, rb_raised>>
    /\ UNCHANGED not_rb_vars

\* clear_channel, lines 345-349: messages = await
\* channel.history(limit=100).flatten(); without messages it returns.
\* Lines 352-361 split them by age: days < 14, days >= 14.
RbHistory ==
    /\ rb_pc = "history"
    /\ LET ch == RbChannels[rb_chan]
           recent == Min(rb_msgs[ch].recent, HistoryLimit)
           older == Min(rb_msgs[ch].old, HistoryLimit - recent)
       IN  /\ rb_log' = Append(rb_log, RbEntry("history", ch, "-"))
           /\ IF RbFailsNow("history", ch)
              THEN /\ RbFail(rb_input.fail.kind)
                   /\ UNCHANGED <<rb_recent, rb_older>>
              ELSE /\ rb_recent' = recent
                   /\ rb_older' = older
                   /\ UNCHANGED <<rb_errors, rb_raised>>
                   /\ IF recent > 0
                      THEN rb_pc' = "purge" /\ UNCHANGED <<rb_chan, rb_slot>>
                      ELSE IF older > 0
                      THEN rb_pc' = "delete" /\ UNCHANGED <<rb_chan, rb_slot>>
                      ELSE RbAfterClear
    /\ UNCHANGED <<rb_mode, rb_msgs, rb_input>>
    /\ UNCHANGED not_rb_vars

\* clear_channel, lines 356-357: await channel.purge(limit=
\* len(recent_messages)), one bulk call for the newest messages.
RbPurge ==
    /\ rb_pc = "purge"
    /\ LET ch == RbChannels[rb_chan]
       IN  /\ rb_log' = Append(rb_log, RbEntry("purge", ch, "-"))
           /\ IF RbFailsNow("purge", ch)
              THEN /\ RbFail(rb_input.fail.kind)
                   /\ UNCHANGED rb_msgs
              ELSE /\ rb_msgs' = [rb_msgs EXCEPT ![ch].recent =
                                     @ - Min(rb_recent, @)]
                   /\ UNCHANGED <<rb_errors, rb_raised>>
                   /\ IF rb_older > 0
                      THEN rb_pc' = "delete" /\ UNCHANGED <<rb_chan, rb_slot>>
                      ELSE RbAfterClear
    /\ UNCHANGED <<rb_mode, rb_recent, rb_older, rb_input>>
    /\ UNCHANGED not_rb_vars

\* clear_channel, lines 362-363: await message.delete() for the next of
\* older_messages.
RbDelete ==
    /\ rb_pc = "delete"
    /\ LET ch == RbChannels[rb_chan]
       IN  /\ rb_log' = Append(rb_log, RbEntry("delete", ch, "-"))
           /\ IF RbFailsNow("delete", ch)
              THEN /\ RbFail(rb_input.fail.kind)
                   /\ UNCHANGED <<rb_msgs, rb_older>>
              ELSE /\ rb_msgs' = [rb_msgs EXCEPT ![ch].old = @ - 1]
                   /\ rb_older' = rb_older - 1
                   /\ rb_pc' = "sleep"
                   /\ UNCHANGED <<rb_chan, rb_slot, rb_errors, rb_raised>>
    /\ UNCHANGED <<rb_mode, rb_recent, rb_input>>
    /\ UNCHANGED not_rb_vars

\* clear_channel, line 364: await asyncio.sleep(0.5) after the deletion.
RbSleep ==
    /\ rb_pc = "sleep"
    /\ rb_log' = Append(rb_log, RbEntry("sleep", RbChannels[rb_chan], "-"))
    /\ IF rb_older > 0
       THEN rb_pc' = "delete" /\ UNCHANGED <<rb_chan, rb_slot>>
       ELSE RbAfterClear
    /\ UNCHANGED <<rb_mode, rb_msgs, rb_recent, rb_older, rb_input,
                   rb_errors, rb_raised>>
    /\ UNCHANGED not_rb_vars

\* After the embed of slot k of the channel: the next embed, or the next
\* channel of update_department_listings' loop.
RbAfterSlot(k) ==
    IF k < Len(SlotsOf(RbChannels[rb_chan]))
    THEN /\ rb_slot' = k + 1
         /\ rb_pc' = "send"
         /\ UNCHANGED rb_chan
    ELSE RbGoOn(rb_chan + 1)

\* The next embed: create_..._embed returns None and nothing is sent, or
\* await channel.send(embed=...) (lines 150-152, 434-436, 460-462).
RbSend ==
    /\ rb_pc = "send"
    /\ LET ch == RbChannels[rb_chan]
           slot == SlotsOf(ch)[rb_slot]
       IN  IF <<ch, slot>> \in rb_input.missing
           THEN /\ RbAfterSlot(rb_slot)
                /\ UNCHANGED <<rb_log, rb_errors, rb_raised>>
           ELSE /\ rb_log' = Append(rb_log, RbEntry("send", ch, slot))
                /\ IF RbFailsNow("send", ch)
                   THEN RbFail(rb_input.fail.kind)
                   ELSE /\ rb_pc' = "send_sleep"
                        /\ UNCHANGED <<rb_chan, rb_slot, rb_errors, rb_raised>>
    /\ UNCHANGED <<rb_mode, rb_msgs, rb_recent, rb_older, rb_input>>
    /\ UNCHANGED not_rb_vars

\* await asyncio.sleep(0.5) after the send (lines 153, 437, 463).
RbSendSleep ==
    /\ rb_pc = "send_sleep"
    /\ rb_log' = Append(rb_log, RbEntry("sleep", RbChannels[rb_chan], "-"))
    /\ RbAfterSlot(rb_slot)
    /\ UNCHANGED <<rb_mode, rb_msgs, rb_recent, rb_older, rb_input,
                   rb_errors, rb_raised>>
    /\ UNCHANGED not_rb_vars

\* Nothing has been called yet.
RbInit ==
    /\ rb_pc = "idle"
    /\ rb_mode = "clear"
    /\ rb_chan = 0
    /\ rb_msgs = [ch \in RbChannelSet |-> [recent |-> 0, old |-> 0]]
    /\ rb_recent = 0
    /\ rb_older = 0
    /\ rb_slot = 0
    /\ rb_input = NoInput
    /\ rb_log = <<>>
    /\ rb_errors = {}
    /\ rb_raised = "none"

\* ------------------------------------ cogs/admin.py: kick, ban and timeout
ModCommands == {"kick", "ban", "timeout"}

\* What a command reads from the interaction and what the platform answers:
\* the positions of the three top roles, whether the invoker owns the
\* server, whether the bot holds the command's permission, whether the DM
\* and the moderation call succeed, whether the log channel resolves.
ModInputs ==
    [target_top : 1..MaxTop, author_top : 1..MaxTop, me_top : 1..MaxTop,
     is_owner : BOOLEAN, has_permission : BOOLEAN, dm_ok : BOOLEAN,
     call_ok : BOOLEAN, log_channel : BOOLEAN]

NoModInput ==
    [target_top |-> 1, author_top |-> 1, me_top |-> 1, is_owner |-> FALSE,
     has_permission |-> FALSE, dm_ok |-> FALSE, call_ok |-> FALSE,
     log_channel |-> FALSE]

ModCall(call, arg, ephemeral) ==
    [call |-> call, arg |-> arg, ephemeral |-> ephemeral]

\* user.top_role >= inter.author.top_role and
\* inter.author.id != inter.guild.owner_id
TargetOutranksInvoker(in) ==
    in.target_top >= in.author_top /\ ~in.is_owner

TargetOutranksBot_strict(in) ==
    in.target_top > in.me_top

\* user.top_role >= inter.guild.me.top_role
TargetOutranksBot(in) ==
    in.target_top >= in.me_top

\* The command up to its first await: the three checks, each answering
\* with an ephemeral message and returning.
ModStart(cmd, in) ==
    /\ mod_pc = "idle"
    /\ mod_cmd' = cmd
    /\ mod_in' = in
    /\ IF ~in.has_permission
          THEN /\ mod_log' = <<ModCall("send_message", "no_permission", TRUE)>>
               /\ mod_pc' = "done"
          ELSE IF TargetOutranksInvoker(in)
          THEN /\ mod_log' = <<ModCall("send_message", "higher_than_yours",
                                       TRUE)>>
               /\ mod_pc' = "done"
          ELSE IF TargetOutranksBot(in)
          THEN /\ mod_log' = <<ModCall("send_message", "higher_than_mine",
                                       TRUE)>>
               /\ mod_pc' = "done"
          ELSE /\ mod_log' = <<ModCall("defer", "response", TRUE)>>
               /\ mod_pc' = IF cmd = "timeout" THEN "act" ELSE "dm"
    /\ UNCHANGED not_mod_vars

\* kick and ban: await user.send(embed=embed); a failure is swallowed.
ModDm ==
    /\ mod_pc = "dm"
    /\ mod_log' = Append(mod_log, ModCall("user.send", "target", FALSE))
    /\ mod_pc' = "act"
    /\ UNCHANGED <<mod_cmd, mod_in>>
    /\ UNCHANGED not_mod_vars

\* await user.kick(...) / user.ban(...) / user.timeout(...)
ModAct ==
    /\ mod_pc = "act"
    /\ mod_log' = Append(mod_log, ModCall(mod_cmd, "target", FALSE))
    /\ mod_pc' = IF mod_in.call_ok THEN "confirm" ELSE "failed"
    /\ UNCHANGED <<mod_cmd, mod_in>>
    /\ UNCHANGED not_mod_vars

\* except Exception: the failure is logged and told to the moderator.
ModFailed ==
    /\ mod_pc = "failed"
    /\ mod_log' = Append(mod_log,
                         ModCall("edit_original_message", "failed", TRUE))
    /\ mod_pc' = "done"
    /\ UNCHANGED <<mod_cmd, mod_in>>
    /\ UNCHANGED not_mod_vars

\* await inter.edit_original_message(embed=embed)
ModConfirm ==
    /\ mod_pc = "confirm"
    /\ mod_log' = Append(mod_log,
                         ModCall("edit_original_message", "confirmed", TRUE))
    /\ mod_pc' = IF mod_in.log_channel THEN "log" ELSE "done"
    /\ UNCHANGED <<mod_cmd, mod_in>>
    /\ UNCHANGED not_mod_vars

\* await log_channel.send(embed=log_embed)
ModLogChannel ==
    /\ mod_pc = "log"
    /\ mod_log' = Append(mod_log, ModCall("log_channel.send", "log", FALSE))
    /\ mod_pc' = "done"
    /\ UNCHANGED <<mod_cmd, mod_in>>
    /\ UNCHANGED not_mod_vars

\* The command has returned; the next one may come.
ModReturn ==
    /\ mod_pc = "done"
    /\ mod_pc' = "idle"
    /\ mod_cmd' = "none"
    /\ mod_in' = NoModInput
    /\ mod_log' = <<>>
    /\ UNCHANGED not_mod_vars

ModInit ==
    /\ mod_pc = "idle"
    /\ mod_cmd = "none"
    /\ mod_in = NoModInput
    /\ mod_log = <<>>

\* ------------------------------ cogs/error_handler.py: command errors
\* The error classes and, for each, the classes isinstance accepts it for.
EhRaised ==
    {"CommandOnCooldown", "NoPrivateMessage", "MissingPermissions",
     "BotMissingPermissions", "Forbidden", "NotFound", "CheckFailure",
     "CommandError", "HTTPException", "ValueError"}

EhBases(c) ==
    {c} \cup
    CASE c \in {"NoPrivateMessage", "MissingPermissions",
                "BotMissingPermissions"} -> {"CheckFailure", "CommandError"}
      [] c \in {"CommandOnCooldown", "CheckFailure", "CommandInvokeError"}
                                         -> {"CommandError"}
      [] c \in {"Forbidden", "NotFound"} -> {"HTTPException"}
      [] OTHER                           -> {}

isinstance(c, cls) == cls \in EhBases(c)

\* An error as the listener receives it: raised by a check, or wrapped in
\* CommandInvokeError with the error of the command's body as .original.
EhErrors ==
    [cls : EhRaised, original : {"none"}] \cup
    [cls : {"CommandInvokeError"}, original : EhRaised]

NoError == [cls |-> "none", original |-> "none"]

\* error = getattr(error, 'original', error)
EhUnwrap(e) == IF e.original # "none" THEN e.original ELSE e.cls

EhBranches_generic_first ==
    << [cls |-> "CheckFailure", text |-> "no_permission_to_use"],
       [cls |-> "CommandOnCooldown", text |-> "cooldown"],
       [cls |-> "NoPrivateMessage", text |-> "no_private_messages"],
       [cls |-> "MissingPermissions", text |-> "you_lack_permissions"],
       [cls |-> "BotMissingPermissions", text |-> "i_lack_permissions"],
       [cls |-> "Forbidden", text |-> "forbidden"],
       [cls |-> "NotFound", text |-> "not_found"] >>

\* The if/elif chain, in its order, with the message each branch sends.
EhBranches ==
    << [cls |-> "CommandOnCooldown", text |-> "cooldown"],
       [cls |-> "NoPrivateMessage", text |-> "no_private_messages"],
       [cls |-> "MissingPermissions", text |-> "you_lack_permissions"],
       [cls |-> "BotMissingPermissions", text |-> "i_lack_permissions"],
       [cls |-> "Forbidden", text |-> "forbidden"],
       [cls |-> "NotFound", text |-> "not_found"],
       [cls |-> "CheckFailure", text |-> "no_permission_to_use"] >>

\* The branch taken: the first whose isinstance test holds, 0 for the else.
EhBranch(c) ==
    LET S == {i \in 1..Len(EhBranches) : isinstance(c, EhBranches[i].cls)}
    IN  IF S = {} THEN 0 ELSE CHOOSE i \in S : \A k \in S : i <= k

\* The listener up to its first await.
on_slash_command_error(e, own, done) ==
    /\ eh_pc = "idle"
    /\ eh_error' = e
    /\ eh_own_handler' = own
    /\ eh_response_done' = done
    /\ LET b == EhBranch(EhUnwrap(e))
       IN  IF own
           THEN /\ eh_pc' = "returned"
                /\ UNCHANGED <<eh_text, eh_log>>
           ELSE IF b = 0
           THEN /\ eh_log' = <<"unhandled", "traceback">>
                /\ IF done
                   THEN eh_pc' = "returned" /\ UNCHANGED eh_text
                   ELSE eh_pc' = "send" /\ eh_text' = "error_logged"
           ELSE /\ eh_pc' = "send"
                /\ eh_text' = EhBranches[b].text
                /\ UNCHANGED eh_log
    /\ UNCHANGED <<eh_sent, eh_raised>>
    /\ UNCHANGED not_eh_vars

\* await inter.response.send_message(..., ephemeral=True); on an
\* interaction already answered the call raises.
EhSend ==
    /\ eh_pc = "send"
    /\ IF eh_response_done
       THEN /\ eh_raised' = "InteractionResponded"
            /\ eh_pc' = "returned"
            /\ UNCHANGED eh_sent
       ELSE /\ eh_sent' = Append(eh_sent,
                                 [text |-> eh_text, ephemeral |-> TRUE])
            /\ eh_pc' = IF eh_text = "forbidden" THEN "log" ELSE "returned"
            /\ UNCHANGED eh_raised
    /\ UNCHANGED <<eh_error, eh_own_handler, eh_response_done, eh_text,
                   eh_log>>
    /\ UNCHANGED not_eh_vars

\* The Forbidden branch, lines 51-52: logger.error after the message.
EhLogForbidden ==
    /\ eh_pc = "log"
    /\ eh_log' = Append(eh_log, "permission_error")
    /\ eh_pc' = "returned"
    /\ UNCHANGED <<eh_error, eh_own_handler, eh_response_done, eh_text,
                   eh_sent, eh_raised>>
    /\ UNCHANGED not_eh_vars

\* The listener is done; the next error may come.
EhReturn ==
    /\ eh_pc = "returned"
    /\ eh_pc' = "idle"
    /\ eh_error' = NoError
    /\ eh_own_handler' = FALSE
    /\ eh_response_done' = FALSE
    /\ eh_text' = "none"
    /\ eh_sent' = <<>>
    /\ eh_log' = <<>>
    /\ eh_raised' = "none"
    /\ UNCHANGED not_eh_vars

EhInit ==
    /\ eh_pc = "idle"
    /\ eh_error = NoError
    /\ eh_own_handler = FALSE
    /\ eh_response_done = FALSE
    /\ eh_text = "none"
    /\ eh_sent = <<>>
    /\ eh_log = <<>>
    /\ eh_raised = "none"

\* ------------------------------------- cogs/fun.py: the number-guessing game
Players == {"p1", "p2"}

\* max_attempts = 7, line 97
max_attempts == 7

\* What a player may type into the modal, and int() of it.
GuessTexts == {"1", "2", "x"}
IsNumeric(text) == text \in {"1", "2"}
int(text) == IF text = "1" THEN 1 ELSE 2

NoGame == [target |-> 0, attempts |-> 0]

CallbackSlots == 1..MaxCallbacks
IdleCallback == [player |-> "none", pc |-> "idle", msg |-> "none"]

\* /number_guess, lines 95-121: the game state of the player is set anew.
\* The modal and the follow-up sent afterwards (lines 176-180) touch no state.
number_guess(p, target) ==
    /\ ongoing_games' = [ongoing_games EXCEPT ![p] =
                            [target |-> target, attempts |-> 0]]
    /\ UNCHANGED <<guess_cb, guess_key_error>>
    /\ UNCHANGED not_fun_vars

\* modal_callback, lines 123-170, up to its await: the state is looked up,
\* the text parsed, the attempt counted and the answer chosen.
modal_callback(k, p, text) ==
    /\ guess_cb[k].pc = "idle"
    /\ ongoing_games[p].attempts < MaxCounted
    /\ LET game_state == ongoing_games[p]
           attempts == game_state.attempts + 1
           remaining == max_attempts - attempts
           At(pc, msg) == guess_cb' = [guess_cb EXCEPT ![k] =
                              [player |-> p, pc |-> pc, msg |-> msg]]
       IN  IF game_state = NoGame
           THEN At("send", "game_not_found") /\ UNCHANGED ongoing_games
           ELSE IF ~IsNumeric(text)
           THEN At("send", "enter_valid_number") /\ UNCHANGED ongoing_games
           ELSE /\ ongoing_games' = [ongoing_games EXCEPT ![p].attempts =
                                        attempts]
                /\ IF int(text) = game_state.target
                   THEN At("send_del", "congratulations")
                   ELSE IF remaining > 0
                   THEN IF int(text) < game_state.target
                        THEN At("send", "too_low")
                        ELSE At("send", "too_high")
                   ELSE At("send_del", "game_over")
    /\ UNCHANGED guess_key_error
    /\ UNCHANGED not_fun_vars

\* The await of send_message is over; lines 148, 159, 170: del
\* self.ongoing_games[modal_inter.author.id] ends a finished game.
CallbackResume(k) ==
    /\ guess_cb[k].pc \in {"send", "send_del"}
    /\ LET p == guess_cb[k].player
       IN  IF guess_cb[k].pc = "send"
           THEN UNCHANGED <<ongoing_games, guess_key_error>>
           ELSE IF ongoing_games[p] = NoGame
           THEN guess_key_error' = TRUE /\ UNCHANGED ongoing_games
           ELSE /\ ongoing_games' = [ongoing_games EXCEPT ![p] = NoGame]
                /\ UNCHANGED guess_key_error
    /\ guess_cb' = [guess_cb EXCEPT ![k] = IdleCallback]
    /\ UNCHANGED not_fun_vars

\* The await of send_message raises (the interaction has expired, the
\* platform is unreachable): the callback ends there, before any del.
CallbackSendFails(k) ==
    /\ guess_cb[k].pc \in {"send", "send_del"}
    /\ guess_cb' = [guess_cb EXCEPT ![k] = IdleCallback]
    /\ UNCHANGED <<ongoing_games, guess_key_error>>
    /\ UNCHANGED not_fun_vars

\* Fun.__init__, line 14
FunInit ==
    /\ ongoing_games = [p \in Players |-> NoGame]
    /\ guess_cb = [k \in CallbackSlots |-> IdleCallback]
    /\ guess_key_error = FALSE

\* ---------------------------------------- utils/ui_utils.py: Paginator
PgButtons == {"first_page", "prev_page", "next_page", "last_page"}

max(a, b) == IF a > b THEN a ELSE b
min(a, b) == IF a < b THEN a ELSE b

update_buttons_off_by_one(page, n) ==
    [first_page |-> page = 0, prev_page |-> page = 0,
     next_page |-> page = n, last_page |-> page = n]

\* _update_buttons, lines 326-341
update_buttons(page, n) ==
    [first_page |-> page = 0, prev_page |-> page = 0,
     next_page |-> page = n - 1, last_page |-> page = n - 1]

NoPress == [button |-> "none", from |-> 0]

\* Paginator.__init__, lines 295-314
Paginator(n) ==
    /\ pg_pc = "none"
    /\ pg_pc' = "ready"
    /\ pg_embeds' = n
    /\ current_page' = 0
    /\ pg_disabled' = update_buttons(0, n)
    /\ UNCHANGED <<pg_last, pg_pending>>
    /\ UNCHANGED not_pg_vars

\* What each of the four handlers assigns to self.current_page
\* (lines 356, 365, 374, 383).
PageAfter(button) ==
    CASE button = "first_page" -> 0
      [] button = "prev_page"  -> max(0, current_page - 1)
      [] button = "next_page"  -> min(pg_embeds - 1, current_page + 1)
      [] button = "last_page"  -> pg_embeds - 1

\* A press of one of the four controls by an allowed user: the handler
\* sets the page, _update_message refreshes the flags and awaits
\* edit_message (lines 343-348, 355-384).
Press(button) ==
    /\ pg_pc = "ready"
    /\ pg_pending < MaxPending
    /\ current_page' = PageAfter(button)
    /\ pg_disabled' = update_buttons(PageAfter(button), pg_embeds)
    /\ pg_last' = [button |-> button, from |-> current_page]
    /\ pg_pending' = pg_pending + 1
    /\ UNCHANGED <<pg_pc, pg_embeds>>
    /\ UNCHANGED not_pg_vars

\* interaction_check, lines 316-324: a press by another user is answered
\* with a refusal and reaches no handler.
PressDenied ==
    /\ pg_pc = "ready"
    /\ pg_last' = [button |-> "denied", from |-> current_page]
    /\ UNCHANGED <<pg_pc, pg_embeds, current_page, pg_disabled, pg_pending>>
    /\ UNCHANGED not_pg_vars

\* An awaited edit_message returns.
Edited ==
    /\ pg_pending > 0
    /\ pg_pending' = pg_pending - 1
    /\ UNCHANGED <<pg_pc, pg_embeds, current_page, pg_disabled, pg_last>>
    /\ UNCHANGED not_pg_vars

\* close, lines 391-394: the view is taken off the message and stopped.
close ==
    /\ pg_pc = "ready"
    /\ pg_pc' = "stopped"
    /\ UNCHANGED <<pg_embeds, current_page, pg_disabled, pg_last, pg_pending>>
    /\ UNCHANGED not_pg_vars

PgInit ==
    /\ pg_pc = "none"
    /\ pg_embeds = 0
    /\ current_page = 0
    /\ pg_disabled = [b \in PgButtons |-> FALSE]
    /\ pg_last = NoPress
    /\ pg_pending = 0

\* --------------- utils/role_timers.py: parse_duration and format_duration
\* Strings are sequences of characters. "sup2" stands for the superscript
\* two (U+00B2), a character str.isdigit accepts and int rejects.
DecDigits == <<"0", "1", "2", "3", "4", "5", "6", "7", "8", "9">>
DecDigitSet == {DecDigits[i] : i \in 1..Len(DecDigits)}
UnitLetters == {"d", "h", "m", "s"}

\* The characters the inputs are made of.
DurAlphabet == {"0", "1", "6", "d", "h", "m", "s", "H", " ", "sup2"}

\* All strings of length n, and of length up to n.
RECURSIVE StringsOfLen(_)
StringsOfLen(n) ==
    IF n = 0 THEN {<<>>}
    ELSE {Append(s, c) : s \in StringsOfLen(n - 1), c \in DurAlphabet}

DurInputs(len) == UNION {StringsOfLen(n) : n \in 0..len}

\* str.lower on one character
lower(c) ==
    CASE c = "D" -> "d"
      [] c = "H" -> "h"
      [] c = "M" -> "m"
      [] c = "S" -> "s"
      [] OTHER   -> c

\* str.isdigit on one character
isdigit(c) == c \in DecDigitSet \cup {"sup2"}

DigitValue(c) == (CHOOSE i \in 1..Len(DecDigits) : DecDigits[i] = c) - 1

\* The value of a string of decimal digits.
RECURSIVE DecValue(_)
DecValue(buf) ==
    IF buf = <<>> THEN 0
    ELSE DecValue(SubSeq(buf, 1, Len(buf) - 1)) * 10
         + DigitValue(buf[Len(buf)])

Returned(n) == [raised |-> "none", value |-> n]
Raised(kind) == [raised |-> kind, value |-> 0]

\* int(current_num): the value, or ValueError for the empty string and for
\* a character that is no decimal digit.
to_int(buf) ==
    IF buf # <<>> /\ \A i \in 1..Len(buf) : buf[i] \in DecDigitSet
    THEN Returned(DecValue(buf))
    ELSE Raised("ValueError")

UnitSeconds(c) ==
    CASE c = "d" -> 86400
      [] c = "h" -> 3600
      [] c = "m" -> 60
      [] c = "s" -> 1

\* The loop with the unit branches taken whether or not digits were
\* gathered.
RECURSIVE ParseFrom_unguarded(_, _, _, _)
ParseFrom_unguarded(str, i, total_seconds, current_num) ==
    IF i > Len(str)
    THEN IF current_num # <<>>
         THEN IF to_int(current_num).raised # "none"
              THEN to_int(current_num)
              ELSE Returned(total_seconds + to_int(current_num).value)
         ELSE Returned(total_seconds)
    ELSE LET char == lower(str[i])
         IN  IF isdigit(char)
             THEN ParseFrom_unguarded(str, i + 1, total_seconds,
                                      Append(current_num, char))
             ELSE IF char \in UnitLetters
             THEN IF to_int(current_num).raised # "none"
                  THEN to_int(current_num)
                  ELSE ParseFrom_unguarded(str, i + 1,
                                 total_seconds + to_int(current_num).value
                                                 * UnitSeconds(char),
                                 <<>>)
             ELSE ParseFrom_unguarded(str, i + 1, total_seconds, current_num)

\* The loop of parse_duration from character i on, lines 150-170.
RECURSIVE ParseFrom(_, _, _, _)
ParseFrom(str, i, total_seconds, current_num) ==
    IF i > Len(str)
    THEN IF current_num # <<>>
         THEN IF to_int(current_num).raised # "none"
              THEN to_int(current_num)
              ELSE Returned(total_seconds + to_int(current_num).value)
         ELSE Returned(total_seconds)
    ELSE LET char == lower(str[i])
         IN  IF isdigit(char)
             THEN ParseFrom(str, i + 1, total_seconds,
                            Append(current_num, char))
             ELSE IF char \in UnitLetters /\ current_num # <<>>
             THEN IF to_int(current_num).raised # "none"
                  THEN to_int(current_num)
                  ELSE ParseFrom(str, i + 1,
                                 total_seconds + to_int(current_num).value
                                                 * UnitSeconds(char),
                                 <<>>)
             ELSE ParseFrom(str, i + 1, total_seconds, current_num)

\* parse_duration, lines 138-170
parse_duration(duration_str) == ParseFrom(duration_str, 1, 0, <<>>)

\* str(n) for a natural number
RECURSIVE Str(_)
Str(n) ==
    IF n < 10 THEN <<DecDigits[n + 1]>>
    ELSE Str(n \div 10) \o <<DecDigits[(n % 10) + 1]>>

DurPart_always_plural(n, word) ==
    Str(n) \o <<" ">> \o word \o <<"s">>

\* f"{n} word{'s' if n != 1 else ''}"
DurPart(n, word) ==
    Str(n) \o <<" ">> \o word \o (IF n # 1 THEN <<"s">> ELSE <<>>)

\* ", ".join(parts)
RECURSIVE Join(_)
Join(parts) ==
    IF parts = <<>> THEN <<>>
    ELSE IF Len(parts) = 1 THEN parts[1]
    ELSE parts[1] \o <<",", " ">> \o Join(Tail(parts))

\* format_duration, lines 112-135: the seconds are shown only when no
\* larger part is.
format_duration(secs) ==
    LET days == secs \div 86400
        hours == (secs % 86400) \div 3600
        minutes == (secs % 3600) \div 60
        seconds == secs % 60
        parts == (IF days > 0 THEN <<DurPart(days, <<"d", "a", "y">>)>>
                  ELSE <<>>)
              \o (IF hours > 0 THEN <<DurPart(hours, <<"h", "o", "u", "r">>)>>
                  ELSE <<>>)
              \o (IF minutes > 0
                  THEN <<DurPart(minutes, <<"m", "i", "n", "u", "t", "e">>)>>
                  ELSE <<>>)
    IN  Join( parts
           \o (IF seconds > 0 /\ parts = <<>>
               THEN <<DurPart(seconds, <<"s", "e", "c", "o", "n", "d">>)>>
               ELSE <<>>) )

NoSeconds == Returned(0)

\* parse_duration is called on a string.
DurParse(s) ==
    /\ dur_pc = "idle"
    /\ dur_input' = s
    /\ dur_seconds' = parse_duration(s)
    /\ dur_pc' = "parsed"
    /\ UNCHANGED <<dur_text, dur_again>>
    /\ UNCHANGED not_dur_vars

\* format_duration is called on the seconds parse_duration returned.
DurFormat ==
    /\ dur_pc = "parsed"
    /\ dur_seconds.raised = "none"
    /\ dur_text' = format_duration(dur_seconds.value)
    /\ dur_pc' = "formatted"
    /\ UNCHANGED <<dur_input, dur_seconds, dur_again>>
    /\ UNCHANGED not_dur_vars

\* parse_duration is called on the text format_duration returned.
DurReparse ==
    /\ dur_pc = "formatted"
    /\ dur_again' = parse_duration(dur_text)
    /\ dur_pc' = "reparsed"
    /\ UNCHANGED <<dur_input, dur_seconds, dur_text>>
    /\ UNCHANGED not_dur_vars

\* The next string may come.
DurReturn ==
    /\ dur_pc \in {"parsed", "reparsed"}
    /\ dur_pc = "parsed" => dur_seconds.raised # "none"
    /\ dur_pc' = "idle"
    /\ dur_input' = <<>>
    /\ dur_seconds' = NoSeconds
    /\ dur_text' = <<>>
    /\ dur_again' = NoSeconds
    /\ UNCHANGED not_dur_vars

DurInit ==
    /\ dur_pc = "idle"
    /\ dur_input = <<>>
    /\ dur_seconds = NoSeconds
    /\ dur_text = <<>>
    /\ dur_again = NoSeconds

\* ---------------- format_duration and cogs/admin.py: format_timespan
format_timespan_with_seconds(secs) ==
    LET minutes0 == secs \div 60
        seconds == secs % 60
        hours0 == minutes0 \div 60
        minutes == minutes0 % 60
        days == hours0 \div 24
        hours == hours0 % 24
    IN  Join( (IF days > 0 THEN <<DurPart(days, <<"d", "a", "y">>)>> ELSE <<>>)
           \o (IF hours > 0 THEN <<DurPart(hours, <<"h", "o", "u", "r">>)>>
               ELSE <<>>)
           \o (IF minutes > 0
               THEN <<DurPart(minutes, <<"m", "i", "n", "u", "t", "e">>)>>
               ELSE <<>>)
           \o (IF seconds > 0
               THEN <<DurPart(seconds, <<"s", "e", "c", "o", "n", "d">>)>>
               ELSE <<>>) )

\* format_timespan, admin.py lines 363-379: divmod by 60, 60 and 24, then
\* the same parts as format_duration.
format_timespan(secs) ==
    LET minutes0 == secs \div 60
        seconds == secs % 60
        hours0 == minutes0 \div 60
        minutes == minutes0 % 60
        days == hours0 \div 24
        hours == hours0 % 24
        parts == (IF days > 0 THEN <<DurPart(days, <<"d", "a", "y">>)>>
                  ELSE <<>>)
              \o (IF hours > 0 THEN <<DurPart(hours, <<"h", "o", "u", "r">>)>>
                  ELSE <<>>)
              \o (IF minutes > 0
                  THEN <<DurPart(minutes, <<"m", "i", "n", "u", "t", "e">>)>>
                  ELSE <<>>)
    IN  Join( parts
           \o (IF seconds > 0 /\ parts = <<>>
               THEN <<DurPart(seconds, <<"s", "e", "c", "o", "n", "d">>)>>
               ELSE <<>>) )

\* The numbers of seconds tried: a few days (and the 28 days the timeout
\* command allows at most), hours, minutes and seconds, low and at the top
\* of their range.
FmtInputs(n) ==
    [d : 0..n \cup {28}, h : 0..n \cup {23}, m : 0..n \cup {59},
     s : 0..n \cup {59}]

NoFmtInput == [d |-> 0, h |-> 0, m |-> 0, s |-> 0]

\* A number of seconds is to be shown.
FmtCall(in) ==
    /\ fmt_pc = "idle"
    /\ fmt_in' = in
    /\ fmt_secs' = in.d * 86400 + in.h * 3600 + in.m * 60 + in.s
    /\ fmt_pc' = "called"
    /\ UNCHANGED <<fmt_text, fmt_span>>
    /\ UNCHANGED not_fmt_vars

\* format_duration(seconds), as in role_timers.py lines 75 and 98
FmtDuration ==
    /\ fmt_pc = "called"
    /\ fmt_text' = format_duration(fmt_secs)
    /\ fmt_pc' = "formatted"
    /\ UNCHANGED <<fmt_in, fmt_secs, fmt_span>>
    /\ UNCHANGED not_fmt_vars

\* format_timespan(duration * 60), as in admin.py line 265
FmtTimespan ==
    /\ fmt_pc = "formatted"
    /\ fmt_span' = format_timespan(fmt_secs)
    /\ fmt_pc' = "both"
    /\ UNCHANGED <<fmt_in, fmt_secs, fmt_text>>
    /\ UNCHANGED not_fmt_vars

\* The next number may come.
FmtReturn ==
    /\ fmt_pc = "both"
    /\ fmt_pc' = "idle"
    /\ fmt_in' = NoFmtInput
    /\ fmt_secs' = 0
    /\ fmt_text' = <<>>
    /\ fmt_span' = <<>>
    /\ UNCHANGED not_fmt_vars

FmtInit ==
    /\ fmt_pc = "idle"
    /\ fmt_in = NoFmtInput
    /\ fmt_secs = 0
    /\ fmt_text = <<>>
    /\ fmt_span = <<>>

\* ------------- cogs/staff_listings.py: create_department_mid_staff_embed
\* The department the roster is built for, dept['short'].
MsDept == "HAD"

\* The guild's members in the order guild.get_role(...).members gives them,
\* and their display names.
MsMembers == <<"a1", "a2", "a3">>
display_name ==
    [a1 |-> <<"S", "a", "m">>, a2 |-> <<"d", "a", "n">>,
     a3 |-> <<"H", "a", "l">>]

\* The roles of the guild by id and their names, word by word. Role 1 is the
\* department's base role. "HADx" is a word that begins with "HAD".
MsRoleNames ==
    << <<"HAD">>,
       <<"Zaveduyushchiy", " ", "HAD">>,
       <<"Nachalnik", " ", "HAD">>,
       <<"Zam. Nachalnika", " ", " ", "HAD">>,
       <<"Nachalnik", " ", "PM">>,
       <<"Nachalnik", " ", "HADx">>,
       <<"Starshiy", " ", "Nachalnik", " ", "HAD">>,
       <<"Nachalnik", "HAD">> >>
MsBaseRole == 1

\* Whether word begins with the characters of prefix.
BeginsWith(word, prefix) ==
    word = prefix \/ (word = "HADx" /\ prefix = "HAD")

\* re.compile(f"{title}\\s+{dept_short}").match(name): the title at the
\* start of the name, one or more blanks, then the department's short name;
\* whatever follows is not looked at.
pattern_match(title, short, name) ==
    /\ Len(name) >= 3
    /\ name[1] = title
    /\ \E k \in 2..(Len(name) - 1) :
          /\ \A j \in 2..k : name[j] = " "
          /\ BeginsWith(name[k + 1], short)

\* Lines 305-315: whether a member holds a leadership role of the department.
is_leader(roles, short) ==
    \E r \in roles :
       \/ pattern_match("Zaveduyushchiy", short, MsRoleNames[r])
       \/ pattern_match("Nachalnik", short, MsRoleNames[r])
       \/ pattern_match("Zam. Nachalnika", short, MsRoleNames[r])

\* The characters of the display names in code-point order.
CharOrder == <<"D", "H", "M", "S", "a", "d", "h", "l", "m", "n", "s">>
CharRank(c) == CHOOSE i \in 1..Len(CharOrder) : CharOrder[i] = c

\* s < t for strings, as Python compares them.
RECURSIVE StrLess(_, _)
StrLess(s, t) ==
    IF t = <<>> THEN FALSE
    ELSE IF s = <<>> THEN TRUE
    ELSE IF s[1] # t[1] THEN CharRank(s[1]) < CharRank(t[1])
    ELSE StrLess(Tail(s), Tail(t))

sort_key_raw(m) == display_name[m]

\* key=lambda m: m.display_name.lower()
sort_key(m) == [i \in 1..Len(display_name[m]) |-> lower(display_name[m][i])]

\* list.sort(key=...): a stable sort, here by insertion from the left.
RECURSIVE SortedByKey(_)
SortedByKey(list) ==
    IF list = <<>> THEN <<>>
    ELSE LET front == SortedByKey(SubSeq(list, 1, Len(list) - 1))
             x == list[Len(list)]
             n == Cardinality({i \in 1..Len(front) :
                                  ~StrLess(sort_key(x), sort_key(front[i]))})
         IN  SubSeq(front, 1, n) \o <<x>> \o SubSeq(front, n + 1, Len(front))

\* The members of a list that pass a test, in the list's order.
RECURSIVE Filter(_, _)
Filter(list, keep) ==
    IF list = <<>> THEN <<>>
    ELSE (IF list[1] \in keep THEN <<list[1]>> ELSE <<>>)
         \o Filter(Tail(list), keep)

MsNone == [none |-> TRUE, lines |-> <<>>]

\* What the members may hold: the base role or not, and at most one of the
\* other roles.
MsHoldings ==
    {S \in SUBSET (1..Len(MsRoleNames)) : Cardinality(S \ {MsBaseRole}) <= 1}

\* The embed is asked for.
MsCall(found, roles) ==
    /\ ms_pc = "idle"
    /\ ms_dept_role' = found
    /\ ms_roles' = roles
    /\ ms_pc' = "called"
    /\ UNCHANGED ms_embed
    /\ UNCHANGED not_ms_vars

\* create_department_mid_staff_embed, lines 281-336 (no await inside).
create_department_mid_staff_embed ==
    /\ ms_pc = "called"
    /\ LET with_role == {MsMembers[i] : i \in {j \in 1..Len(MsMembers) :
                                          MsBaseRole \in ms_roles[MsMembers[j]]}}
           mid_staff == SortedByKey(Filter(MsMembers,
                            {m \in with_role : ~is_leader(ms_roles[m], MsDept)}))
       IN  ms_embed' =
              IF ~ms_dept_role \/ mid_staff = <<>>
              THEN MsNone
              ELSE [none |-> FALSE,
                    lines |-> [i \in 1..Len(mid_staff) |->
                                 [n |-> i, member |-> mid_staff[i]]]]
    /\ ms_pc' = "returned"
    /\ UNCHANGED <<ms_dept_role, ms_roles>>
    /\ UNCHANGED not_ms_vars

\* The next call may come.
MsReturn ==
    /\ ms_pc = "returned"
    /\ ms_pc' = "idle"
    /\ ms_dept_role' = FALSE
    /\ ms_roles' = [m \in DOMAIN display_name |-> {}]
    /\ ms_embed' = MsNone
    /\ UNCHANGED not_ms_vars

MsInit ==
    /\ ms_pc = "idle"
    /\ ms_dept_role = FALSE
    /\ ms_roles = [m \in DOMAIN display_name |-> {}]
    /\ ms_embed = MsNone

\* ------------------------------------------------------- staff-listings commands

\* The commands of the group.
SlCommands == {"update_staff", "update_department_staff", "toggle_staff_listings"}

\* The authors of a command: administrators of the guild or not, listed in
\* config.OWNER_IDS or not.
SlAuthors == [administrator : BOOLEAN, owner : BOOLEAN]

NoSlCall == [cmd |-> "None", author |-> [administrator |-> FALSE, owner |-> FALSE],
             was_enabled |-> FALSE, response |-> "None"]

\* The permission test with its connective mistaken: it lets through only
\* the administrators that are also owners.
SlAuthorized_both_required(author) == author.administrator /\ author.owner

\* The permission test at the head of the commands: the author is let
\* through unless neither an administrator nor an owner.
SlAuthorized(author) == author.administrator \/ author.owner

\* The check of the group: while the feature is off only administrators
\* pass.
SlGroupCheck(author) == sl_enabled \/ author.administrator

\* A command of the group is invoked.
SlInvoke(cmd, author) ==
    /\ sl_pc = "idle"
    /\ sl_call' = [cmd |-> cmd, author |-> author,
                   was_enabled |-> sl_enabled, response |-> "None"]
    /\ sl_pc' = "check"
    /\ UNCHANGED <<sl_enabled, sl_running, sl_refreshes>>
    /\ UNCHANGED not_sl_vars

\* The check of the group runs before the command's body.
SlCheck ==
    /\ sl_pc = "check"
    /\ IF SlGroupCheck(sl_call.author)
       THEN /\ sl_pc' = "body"
            /\ UNCHANGED sl_call
       ELSE /\ sl_pc' = "done"
            /\ sl_call' = [sl_call EXCEPT !.response = "check failed"]
    /\ UNCHANGED <<sl_enabled, sl_running, sl_refreshes>>
    /\ UNCHANGED not_sl_vars

\* update_staff and update_department_staff: the permission test, then the
\* refresh, answered with a success or with a permission warning.
SlUpdate ==
    /\ sl_pc = "body"
    /\ sl_call.cmd \in {"update_staff", "update_department_staff"}
    /\ IF ~SlAuthorized(sl_call.author)
       THEN sl_call' = [sl_call EXCEPT !.response = "no permission"]
       ELSE \E r \in {"updated", "permission warning"} :
                sl_call' = [sl_call EXCEPT !.response = r]
    /\ sl_pc' = "done"
    /\ UNCHANGED <<sl_enabled, sl_running, sl_refreshes>>
    /\ UNCHANGED not_sl_vars

\* toggle_staff_listings: the permission test, then the switch is flipped
\* and the scheduled task started or stopped to match.
toggle_staff_listings ==
    /\ sl_pc = "body"
    /\ sl_call.cmd = "toggle_staff_listings"
    /\ IF ~SlAuthorized(sl_call.author)
       THEN /\ sl_call' = [sl_call EXCEPT !.response = "no permission"]
            /\ UNCHANGED <<sl_enabled, sl_running>>
       ELSE /\ sl_enabled' = ~sl_enabled
            /\ sl_running' = ~sl_enabled
            /\ sl_call' = [sl_call EXCEPT !.response =
                               IF sl_enabled THEN "disabled" ELSE "enabled"]
    /\ sl_pc' = "done"
    /\ UNCHANGED sl_refreshes
    /\ UNCHANGED not_sl_vars

\* The scheduled task, while it runs, refreshes the listings.
SlScheduledRefresh ==
    /\ sl_running
    /\ sl_refreshes < MaxTime
    /\ sl_refreshes' = sl_refreshes + 1
    /\ UNCHANGED <<sl_enabled, sl_running, sl_pc, sl_call>>
    /\ UNCHANGED not_sl_vars

\* The command returns.
SlReturn ==
    /\ sl_pc = "done"
    /\ sl_pc' = "idle"
    /\ sl_call' = NoSlCall
    /\ UNCHANGED <<sl_enabled, sl_running, sl_refreshes>>
    /\ UNCHANGED not_sl_vars

\* The cog is constructed: the switch holds the default of
\* config.FEATURES and the scheduled task is started.
SlInit ==
    /\ sl_enabled = TRUE
    /\ sl_running = TRUE
    /\ sl_pc = "idle"
    /\ sl_call = NoSlCall
    /\ sl_refreshes = 0

\* ------------------------------------------------------- data/database.py

\* The coroutines that run persistence operations side by side: on_ready,
\* which awaits init_db (main.py 133-136), and the handlers of two commands.
DbOps == {"on_ready", "command1", "command2"}

\* get_db, lines 148-158, called at the head of a persistence operation
\* (base_model.py 85, 33): the adapter is constructed and assigned before
\* the first await; create_tables only takes the free setup lock.
get_db(o) ==
    /\ db_pc[o] = "idle"
    /\ db_adapters' = IF db_adapters = 0 THEN 1 ELSE db_adapters
    /\ db_pc' = [db_pc EXCEPT ![o] = "get_connection"]
    /\ UNCHANGED <<db_connection, db_opened, db_conn, db_used>>
    /\ UNCHANGED not_db_vars

\* Database.execute line 52 and _get_connection lines 30-31 and 37: with
\* self._connection set it is returned; with None the operation awaits
\* aiosqlite.connect.
DbGetConnection(o) ==
    /\ db_pc[o] = "get_connection"
    /\ IF db_connection = None
       THEN /\ db_pc' = [db_pc EXCEPT ![o] = "connecting"]
            /\ UNCHANGED db_conn
       ELSE /\ db_pc' = [db_pc EXCEPT ![o] = "execute"]
            /\ db_conn' = [db_conn EXCEPT ![o] = db_connection]
    /\ UNCHANGED <<db_adapters, db_connection, db_opened, db_used>>
    /\ UNCHANGED not_db_vars

\* Lines 31-33: aiosqlite.connect has opened a connection; it is assigned to
\* self._connection and the PRAGMA is awaited on it.
DbConnected(o) ==
    /\ db_pc[o] = "connecting"
    /\ db_opened' = db_opened + 1
    /\ db_connection' = db_opened + 1
    /\ db_pc' = [db_pc EXCEPT ![o] = "pragma"]
    /\ UNCHANGED <<db_adapters, db_conn, db_used>>
    /\ UNCHANGED not_db_vars

\* Lines 35-37: the PRAGMA is through; row_factory is set on, and the return
\* value read from, whatever self._connection holds by now.
DbPragmaDone(o) ==
    /\ db_pc[o] = "pragma"
    /\ db_conn' = [db_conn EXCEPT ![o] = db_connection]
    /\ db_pc' = [db_pc EXCEPT ![o] = "execute"]
    /\ UNCHANGED <<db_adapters, db_connection, db_opened, db_used>>
    /\ UNCHANGED not_db_vars

\* Database.execute lines 53-55 (fetchone 87-89, fetchall 111-113): the
\* query runs on the connection the operation was handed, and the operation
\* returns.
DbExecute(o) ==
    /\ db_pc[o] = "execute"
    /\ db_used' = db_used \cup {db_conn[o]}
    /\ db_conn' = [db_conn EXCEPT ![o] = None]
    /\ db_pc' = [db_pc EXCEPT ![o] = "idle"]
    /\ UNCHANGED <<db_adapters, db_connection, db_opened>>
    /\ UNCHANGED not_db_vars

\* Lines 145 and 22: no adapter yet; an adapter starts without a connection.
DbInit ==
    /\ db_adapters = 0
    /\ db_connection = None
    /\ db_opened = 0
    /\ db_pc = [o \in DbOps |-> "idle"]
    /\ db_conn = [o \in DbOps |-> None]
    /\ db_used = {}

\* ----------------------------- cogs/role_timer.py: two sweeps side by side

\* The invocations of check_timed_roles that may overlap: the iteration of
\* role_check_task (line 30) and the check_expired command (line 295).
Sweepers == {"scheduled", "manual"}

\* A grant has expired: its record is in the table with any flags, and the
\* member holds the role or has lost it by hand.
OvExpired(r, holds) ==
    /\ ov_record = NoRow
    /\ ov_record' = r
    /\ ov_in_table' = TRUE
    /\ ov_holds' = holds
    /\ UNCHANGED <<ov_pc, ov_issued>>
    /\ UNCHANGED not_ov_vars

\* check_timed_roles, lines 43-56, taken past the clock read of line 41:
\* the rows are fetched and the expired ones listed; the record is in this
\* sweep's list if it was in the table at the fetch.
OvFetch(s) ==
    /\ ov_pc[s] = "idle"
    /\ ov_in_table
    /\ ov_pc' = [ov_pc EXCEPT ![s] = "listed"]
    /\ UNCHANGED <<ov_record, ov_in_table, ov_holds, ov_issued>>
    /\ UNCHANGED not_ov_vars

\* Lines 59-60 and _process_expired_role lines 96-126: the record of the
\* list is processed, whether or not it is still in the table; guild,
\* member and role resolve, has_role is read.
OvProcess(s) ==
    /\ ov_pc[s] = "listed"
    /\ ov_pc' = [ov_pc EXCEPT ![s] =
                    IF ov_record.auto_remove = 1 /\ ov_holds
                    THEN "remove_roles" ELSE AfterRemove(ov_record)]
    /\ UNCHANGED <<ov_record, ov_in_table, ov_holds, ov_issued>>
    /\ UNCHANGED not_ov_vars

\* Lines 127-134: await member.remove_roles.
OvRemoveRoles(s) ==
    /\ ov_pc[s] = "remove_roles"
    /\ ov_issued' = [ov_issued EXCEPT !["remove_roles"] = @ + 1]
    /\ ov_holds' = FALSE
    /\ ov_pc' = [ov_pc EXCEPT ![s] = AfterRemove(ov_record)]
    /\ UNCHANGED <<ov_record, ov_in_table>>
    /\ UNCHANGED not_ov_vars

\* Lines 137-167: await member.send(embed).
OvNotifyUser(s) ==
    /\ ov_pc[s] = "notify_user"
    /\ ov_issued' = [ov_issued EXCEPT !["dm"] = @ + 1]
    /\ ov_pc' = [ov_pc EXCEPT ![s] = AfterNotifyUser(ov_record)]
    /\ UNCHANGED <<ov_record, ov_in_table, ov_holds>>
    /\ UNCHANGED not_ov_vars

\* Lines 170-171 and 180-227: the notice is posted to the channel.
OvNotifyChannel(s) ==
    /\ ov_pc[s] = "notify_channel"
    /\ ov_issued' = [ov_issued EXCEPT !["notice"] = @ + 1]
    /\ ov_pc' = [ov_pc EXCEPT ![s] = "delete"]
    /\ UNCHANGED <<ov_record, ov_in_table, ov_holds>>
    /\ UNCHANGED not_ov_vars

\* Lines 173-174: await TimedRole.remove_timed_role(record["id"]); the
\* sweep has no further record and returns.
OvDelete(s) ==
    /\ ov_pc[s] = "delete"
    /\ ov_in_table' = FALSE
    /\ ov_pc' = [ov_pc EXCEPT ![s] = "done"]
    /\ UNCHANGED <<ov_record, ov_holds, ov_issued>>
    /\ UNCHANGED not_ov_vars

OvInit ==
    /\ ov_record = NoRow
    /\ ov_in_table = FALSE
    /\ ov_holds = FALSE
    /\ ov_pc = [s \in Sweepers |-> "idle"]
    /\ ov_issued = [k \in {"remove_roles", "dm", "notice"} |-> 0]

\* ------------------------------------------------------- initial states
WorldInit ==
    /\ now = 0
    /\ timed_roles = {}
    /\ next_id = 1
    /\ last_insert_rowid = 0
    /\ member_roles = {}
    /\ guild_ok = TRUE
    /\ guild_members = Members
    /\ guild_roles = Roles

CallInit ==
    /\ call_pc = [c \in Calls |-> "idle"]
    /\ call_args = [c \in Calls |-> NoArgs]
    /\ call_result = [c \in Calls |-> "none"]
    /\ call_returned = [c \in Calls |-> None]
    /\ call_row = [c \in Calls |-> None]
    /\ api_add_roles = {}

SweepInit ==
    /\ sweep_pc = "idle"
    /\ error_log = 0

ExpInit ==
    /\ exp_pc = "idle"
    /\ exp_record = NoRow
    /\ exp_has_role = FALSE
    /\ exp_unresolved = FALSE
    /\ api_log = {}

\* main.py line 158, load_extensions: every cog constructed, the gateway
\* not yet ready.
LifeInit ==
    /\ bot_ready = FALSE
    /\ cog_gen = [c \in Cogs |-> 0]
    /\ loop_state = [c \in Cogs |-> LoopAfterInit(c)]
    /\ prev_loop_state = [c \in Cogs |-> "none"]
    /\ unload_error = {}

\* StaffListings.__init__, lines 17-22; no refresh has begun.
StaffInit ==
    /\ ref_pc = [t \in Triggers |-> "idle"]
    /\ ref_chan = [t \in Triggers |-> 0]
    /\ update_lock = "free"
    /\ permission_errors = {}
    /\ channel_msgs = [ch \in Channels |-> {}]
    /\ forbidden = {}
    /\ ref_failed = [t \in Triggers |-> {}]

AuxInit == RbInit /\ ModInit /\ EhInit /\ FunInit /\ PgInit /\ DurInit /\ FmtInit /\ MsInit /\ SlInit /\ DbInit /\ OvInit

BotInit == LifeInit /\ StaffInit /\ AuxInit

vars == <<core_vars, aux_vars>>

\* --------------------------------------------------- the grant API alone
Init == WorldInit /\ CallInit /\ SweepInit /\ ExpInit /\ BotInit

Next ==
    \/ \E c \in Calls : Call(c)
    \/ \E c \in Calls : UniquenessAndHierarchy(c)
    \/ \E c \in Calls : AddRoles(c)
    \/ \E c \in Calls : Insert(c)
    \/ \E c \in Calls : ReadBack(c)
    \/ Tick
    \/ ManualRemove

Spec == Init /\ [][Next]_vars

\* ------------------------------------------- the sweep over a filled table
\* Tables that earlier grants leave behind: row 1 with any flags, and
\* possibly a second row; every row for a role the bot can manage.
InitRows1 ==
    { Row(1, m, 1, e, a, n, ch) :
        m \in Members, e \in 0..MaxDuration, a \in {0, 1}, n \in {0, 1},
        ch \in {None, NotifyChannelId} }

InitRows2 ==
    { Row(2, m, 1, e, 1, 1, None) : m \in Members, e \in 0..MaxDuration }

InitTables ==
    {{}} \cup { {r1} : r1 \in InitRows1 }
         \cup { {r1, r2} : r1 \in InitRows1, r2 \in InitRows2 }

\* The table holds rows, and the members may still hold the granted roles.
FilledWorldInit ==
    /\ now = 0
    /\ timed_roles \in InitTables
    /\ next_id = Cardinality(timed_roles) + 1
    /\ last_insert_rowid = Cardinality(timed_roles)
    /\ member_roles \in SUBSET { <<r.user_id, r.role_id>> : r \in timed_roles }
    /\ guild_ok = TRUE
    /\ guild_members = Members
    /\ guild_roles = Roles

SweepSpecInit == FilledWorldInit /\ CallInit /\ SweepInit /\ ExpInit /\ BotInit

SweepNext ==
    \/ SweepStart
    \/ check_timed_roles
    \/ Tick
    \/ ManualRemove

SweepSpec == SweepSpecInit /\ [][SweepNext]_vars

\* The schedule keeps ticking and a started sweep runs to its end.
FairSweepSpec ==
    /\ SweepSpec
    /\ WF_vars(Tick)
    /\ WF_vars(SweepStart)
    /\ WF_vars(check_timed_roles)

\* --------------------------------------- expiry processing of one record
ExpirySpecInit == FilledWorldInit /\ CallInit /\ SweepInit /\ ExpInit /\ BotInit

ExpiryNext ==
    \/ ExpStart
    \/ ExpDeleteUnresolved
    \/ ExpRemoveRoles
    \/ ExpNotifyUser
    \/ ExpDmNote
    \/ ExpNotifyChannel
    \/ ExpDelete
    \/ ExpReturn
    \/ Tick
    \/ ManualRemove
    \/ GuildGone
    \/ MemberLeaves
    \/ RoleDeleted

ExpirySpec == ExpirySpecInit /\ [][ExpiryNext]_vars

\* ------------- expiry processing while roles are taken and given by hand
ReassignNext ==
    \/ ExpStart
    \/ ExpDeleteUnresolved
    \/ ExpRemoveRoles
    \/ ExpNotifyUser
    \/ ExpDmNote
    \/ ExpNotifyChannel
    \/ ExpDelete
    \/ ExpReturn
    \/ Tick
    \/ ManualRemove
    \/ AssignedAgain
    \/ RoleDeleted

ReassignSpec == ExpirySpecInit /\ [][ReassignNext]_vars

\* ------------------------------------- the cogs' schedules and reloads
\* The channels where the bot lacks permissions are part of the setting.
StaffInitAny ==
    /\ ref_pc = [t \in Triggers |-> "idle"]
    /\ ref_chan = [t \in Triggers |-> 0]
    /\ update_lock = "free"
    /\ permission_errors = {}
    /\ channel_msgs = [ch \in Channels |-> {}]
    /\ forbidden \in SUBSET Channels
    /\ ref_failed = [t \in Triggers |-> {}]

LifecycleSpecInit ==
    WorldInit /\ CallInit /\ SweepInit /\ ExpInit /\ LifeInit /\ StaffInitAny
    /\ AuxInit

LifecycleNext ==
    \/ on_ready
    \/ \E c \in Cogs : before_loop(c)
    \/ \E c \in Cogs : LoopIteration(c)
    \/ \E c \in Cogs : LoopIterationEnd(c)
    \/ ClearChannel("tick")
    \/ SendEmbeds("tick")
    \/ reload_all
    \/ \E c \in ReloadChoices : reload_extension(c)
    \/ check_expired

LifecycleSpec == LifecycleSpecInit /\ [][LifecycleNext]_vars

\* The gateway becomes ready, and a loop that is due runs: the hook returns,
\* the iteration begins, its refresh proceeds and it ends.
FairLifecycleSpec ==
    /\ LifecycleSpec
    /\ WF_vars(on_ready)
    /\ \A c \in Cogs : WF_vars(before_loop(c))
    /\ \A c \in Cogs : WF_vars(LoopIteration(c))
    /\ \A c \in Cogs : WF_vars(LoopIterationEnd(c))
    /\ WF_vars(ClearChannel("tick"))
    /\ WF_vars(SendEmbeds("tick"))

\* ------------------------------------------- the staff-listing refreshes
\* The bot is ready and the staff loop has passed its before_loop hook.
RefreshLifeInit ==
    /\ bot_ready = TRUE
    /\ cog_gen = [c \in Cogs |-> 0]
    /\ loop_state = [c \in Cogs |->
                        IF c = "staff_listings" THEN "sleeping" ELSE "unstarted"]
    /\ prev_loop_state = [c \in Cogs |-> "none"]
    /\ unload_error = {}

RefreshSpecInit ==
    WorldInit /\ CallInit /\ SweepInit /\ ExpInit /\ RefreshLifeInit
    /\ StaffInitAny /\ AuxInit

RefreshNext ==
    \/ \E c \in Cogs : LoopIteration(c)
    \/ \E c \in Cogs : LoopIterationEnd(c)
    \/ update_staff
    \/ update_staff_end
    \/ \E t \in EventTriggers : MemberEvent(t)
    \/ \E t \in EventTriggers : MemberEventDropped(t)
    \/ \E t \in EventTriggers : MemberEventEnd(t)
    \/ \E t \in Triggers : ClearChannel(t)
    \/ \E t \in Triggers : SendEmbeds(t)

RefreshSpec == RefreshSpecInit /\ [][RefreshNext]_vars

\* ------------------------------------------ one refresh, call by call
RebuildNext ==
    \/ RbRefreshStart
    \/ RbHistory
    \/ RbPurge
    \/ RbDelete
    \/ RbSleep
    \/ RbSend
    \/ RbSendSleep

RebuildSpec == Init /\ [][RebuildNext]_vars

\* ------------------------------------------------- clear_channel alone
ClearNext ==
    \/ RbClearStart
    \/ RbHistory
    \/ RbPurge
    \/ RbDelete
    \/ RbSleep

ClearSpec == Init /\ [][ClearNext]_vars

\* ---------------------------------------------- the moderation commands
ModNext ==
    \/ \E cmd \in ModCommands, in \in ModInputs : ModStart(cmd, in)
    \/ ModDm
    \/ ModAct
    \/ ModFailed
    \/ ModConfirm
    \/ ModLogChannel
    \/ ModReturn

ModSpec == Init /\ [][ModNext]_vars

\* ------------------------------------------------- the error listener
ErrorNext ==
    \/ \E e \in EhErrors, own \in BOOLEAN, done \in BOOLEAN :
          on_slash_command_error(e, own, done)
    \/ EhSend
    \/ EhLogForbidden
    \/ EhReturn

ErrorSpec == Init /\ [][ErrorNext]_vars

\* -------------------------------------------- the number-guessing game
GuessNext ==
    \/ \E p \in Players, target \in 1..MaxTarget : number_guess(p, target)
    \/ \E k \in CallbackSlots, p \in Players, text \in GuessTexts :
          modal_callback(k, p, text)
    \/ \E k \in CallbackSlots : CallbackResume(k)
    \/ \E k \in CallbackSlots : CallbackSendFails(k)

GuessSpec == Init /\ [][GuessNext]_vars

\* ------------------------------------------------------ the paginator
PaginatorNext ==
    \/ \E n \in 1..MaxPages : Paginator(n)
    \/ \E b \in PgButtons : Press(b)
    \/ PressDenied
    \/ Edited
    \/ close

PaginatorSpec == Init /\ [][PaginatorNext]_vars

\* ------------------------------------------------ the duration strings
DurationNext ==
    \/ \E s \in (IF dur_pc = "idle" THEN DurInputs(MaxLen) ELSE {}) : DurParse(s)
    \/ DurFormat
    \/ DurReparse
    \/ DurReturn

DurationSpec == Init /\ [][DurationNext]_vars

\* ------------------------------------------------ the duration texts
FormatNext ==
    \/ \E in \in (IF fmt_pc = "idle" THEN FmtInputs(MaxUnits) ELSE {}) : FmtCall(in)
    \/ FmtDuration
    \/ FmtTimespan
    \/ FmtReturn

FormatSpec == Init /\ [][FormatNext]_vars

\* --------------------------------------------- the mid-level roster
RosterNext ==
    \/ \E found \in BOOLEAN,
          roles \in (IF ms_pc = "idle" THEN [DOMAIN display_name -> MsHoldings] ELSE {}) :
          MsCall(found, roles)
    \/ create_department_mid_staff_embed
    \/ MsReturn

RosterSpec == Init /\ [][RosterNext]_vars

\* The staff-listings command group alone.
ToggleNext ==
    \/ \E cmd \in SlCommands, author \in SlAuthors : SlInvoke(cmd, author)
    \/ SlCheck
    \/ SlUpdate
    \/ toggle_staff_listings
    \/ SlScheduledRefresh
    \/ SlReturn

ToggleSpec == Init /\ [][ToggleNext]_vars

\* ------------------------------------------------ the storage adapter alone
DatabaseNext ==
    \/ \E o \in DbOps : get_db(o)
    \/ \E o \in DbOps : DbGetConnection(o)
    \/ \E o \in DbOps : DbConnected(o)
    \/ \E o \in DbOps : DbPragmaDone(o)
    \/ \E o \in DbOps : DbExecute(o)

DatabaseSpec == Init /\ [][DatabaseNext]_vars

\* --------------------------------------- two sweeps over an expired record
OverlapNext ==
    \/ \E r \in (IF ov_record = NoRow THEN InitRows1 ELSE {}), holds \in BOOLEAN :
          OvExpired(r, holds)
    \/ \E s \in Sweepers : OvFetch(s)
    \/ \E s \in Sweepers : OvProcess(s)
    \/ \E s \in Sweepers : OvRemoveRoles(s)
    \/ \E s \in Sweepers : OvNotifyUser(s)
    \/ \E s \in Sweepers : OvNotifyChannel(s)
    \/ \E s \in Sweepers : OvDelete(s)

OverlapSpec == Init /\ [][OverlapNext]_vars

\* =================================================================== claims
\* The claim's own reading of the table: an active grant of the pair exists.
ActiveGrantExists(m, r) ==
    \E t \in timed_roles :
        t.guild_id = GuildId /\ t.user_id = m /\ t.role_id = r /\ t.expires_at > now

\* C1: when add_timed_role's uniqueness query is answered while an active
\* grant (expires_at > now) of the same (member, role) pair exists, the call
\* ends with the duplicate-grant ValueError, the table and the member's roles
\* are as before, and the call never calls member.add_roles nor inserts a row.
C1_DuplicateGrantRejected ==
    [][\A c \in Calls :
        /\ ( /\ call_pc[c] = "query"
             /\ call_pc'[c] # "query"
             /\ ActiveGrantExists(call_args[c].member, call_args[c].role) )
           => ( /\ call_pc'[c] = "done"
                /\ call_result'[c] = "ValueError:active"
                /\ timed_roles' = timed_roles
                /\ member_roles' = member_roles )
        /\ call_result'[c] = "ValueError:active"
           => (c \notin api_add_roles' /\ call_row'[c] = None)]_vars

\* C1 witness: a call was rejected as a duplicate while the first grant of
\* the pair is in the table.
C1_Witness ==
    \E c \in Calls :
        /\ call_result[c] = "ValueError:active"
        /\ ActiveGrantExists(call_args[c].member, call_args[c].role)

\* C2: when add_timed_role is called for a role ranked at or above the bot's
\* top role, it ends with a ValueError, never calls member.add_roles and
\* inserts no row.
C2_UnmanageableRoleRejected ==
    [][\A c \in Calls :
        /\ ( /\ call_pc[c] = "query"
             /\ call_pc'[c] # "query"
             /\ call_args[c].role >= BotTopRole )
           => ( /\ call_pc'[c] = "done"
                /\ call_result'[c] \in {"ValueError:hierarchy", "ValueError:active"}
                /\ timed_roles' = timed_roles
                /\ member_roles' = member_roles )
        /\ call_args'[c].role >= BotTopRole /\ call_pc'[c] # "idle"
           => (c \notin api_add_roles' /\ call_row'[c] = None)]_vars

\* C2 witness: a call for the role equal to the bot's top role was rejected
\* by the hierarchy check.
C2_Witness ==
    \E c \in Calls :
        /\ call_result[c] = "ValueError:hierarchy"
        /\ call_args[c].role = BotTopRole

\* C3: each (server, member, role) triple has at most one row with
\* expires_at > now, whatever the interleaving of add_timed_role calls.
C3_AtMostOneActiveGrant ==
    \A r1, r2 \in timed_roles :
        ( /\ r1.guild_id = r2.guild_id
          /\ r1.user_id = r2.user_id
          /\ r1.role_id = r2.role_id
          /\ r1.expires_at > now
          /\ r2.expires_at > now ) => r1 = r2

\* C4: every row that is inserted has expires_at strictly after the instant
\* of its insertion.
C4_ExpiryInFutureAtCreation ==
    [][\A r \in timed_roles' \ timed_roles : r.expires_at > now]_vars

\* The claim's own reading of the platform: the record's guild, member and
\* role all resolve.
Resolves(r) ==
    guild_ok /\ r.user_id \in guild_members /\ r.role_id \in guild_roles

\* C5: a sweep that finds a record with expires_at <= now and auto_remove
\* set, whose guild, member and role resolve, has removed the role from the
\* member and deleted the record when it ends.
C5_SweepProcessesExpired ==
    [][(sweep_pc = "running" /\ sweep_pc' = "idle")
        => \A r \in timed_roles :
              (r.expires_at <= now /\ r.auto_remove = 1 /\ Resolves(r))
              => ( /\ r \notin timed_roles'
                   /\ <<r.user_id, r.role_id>> \notin member_roles' )]_vars

\* C6: expiry processing of a record whose guild, member or role did not
\* resolve when it began goes straight to the deletion: it issues no role
\* removal, no direct message and no channel notice, and when it has ended
\* the record is gone from the table.
C6_UnresolvedOnlyDeleted ==
    exp_unresolved =>
        /\ exp_pc \in {"delete_unresolved", "done"}
        /\ api_log = {}
        /\ exp_pc = "done" => \A t \in timed_roles : t.id # exp_record.id

\* C6 witness: processing ended for a record whose role no longer exists.
C6_Witness ==
    /\ exp_pc = "done"
    /\ exp_unresolved
    /\ guild_ok
    /\ exp_record.user_id \in guild_members
    /\ exp_record.role_id \notin guild_roles

\* C7: a record whose expiry instant has been reached is eventually removed
\* from the table, the sweep being scheduled fairly.
C7_ExpiredEventuallyRemoved ==
    \A id \in {1, 2} :
        []( (\E t \in timed_roles : t.id = id /\ t.expires_at <= now)
            => <>(\A t \in timed_roles : t.id # id) )

\* C8: once the bot is ready, an iteration of the role-expiry schedule
\* (role_check_task) eventually runs, the loops being scheduled fairly.
C8_SweepScheduleRuns ==
    [](bot_ready => <>(loop_state["role_timer"] = "running"))

\* C9: after a cog has been unloaded, its cog_unload has raised no error and
\* the schedule of the unloaded instance is cancelled.
C9_UnloadCancelsSchedules ==
    \A c \in Cogs :
        cog_gen[c] > 0 => (c \notin unload_error /\ prev_loop_state[c] = "cancelled")

\* C10: at most one full refresh is in progress at any time, whatever the
\* triggers, and no channel shows the listings of two refreshes at once.
C10_RefreshesSerialized ==
    /\ Cardinality({t \in Triggers : ref_pc[t] # "idle"}) <= 1
    /\ \A ch \in Channels : Cardinality(channel_msgs[ch]) <= 1

\* C11: a member event that arrives while any refresh is in progress starts
\* no refresh: an event-triggered refresh begins only when no refresh of any
\* trigger is in progress, and the event takes the lock without waiting.
C11_EventSkippedDuringRefresh ==
    [][\A t \in EventTriggers :
          (ref_pc[t] = "idle" /\ ref_pc'[t] # "idle")
          => ( /\ \A u \in Triggers : ref_pc[u] = "idle"
               /\ update_lock = "free" )]_vars

\* The fixed order of a channel's embeds as the specification gives it:
\* the rank of an embed in the high-staff channel and in a department's.
C12_Rank(ch, slot) ==
    IF ch = "high"
    THEN CASE slot = "chief_doctor" -> 1
           [] slot = "deputy_chiefs" -> 2
           [] slot = "hospital_managers" -> 3
           [] slot = "department_heads" -> 4
           [] slot = "HAD" -> 5
           [] slot = "PM" -> 6
           [] OTHER -> 0
    ELSE CASE slot = "curator" -> 1
           [] slot = "head" -> 2
           [] slot = "deputy_heads" -> 3
           [] slot = "mid_staff" -> 4
           [] OTHER -> 0

\* C12: of any two calls of one refresh, the earlier one never is a send to
\* a channel that the later one clears (history, purge, delete), two sends
\* to one channel come in the fixed order of its embeds, and no call to the
\* high-staff channel follows a call to a department channel.
C12_ClearThenSendInOrder ==
    rb_mode = "refresh" =>
      \A i, j \in 1..Len(rb_log) :
        i < j =>
          LET a == rb_log[i]
              b == rb_log[j]
          IN  /\ (a.ch = b.ch /\ a.op = "send")
                 => b.op \notin {"history", "purge", "delete"}
              /\ (a.ch = b.ch /\ a.op = "send" /\ b.op = "send")
                 => ( /\ C12_Rank(a.ch, a.slot) > 0
                      /\ C12_Rank(a.ch, a.slot) < C12_Rank(b.ch, b.slot) )
              /\ a.ch # "high" => b.ch # "high"

\* C12 witness: a refresh is through: it deleted old messages one by one in
\* the high-staff channel, sent all six embeds there and all four in the
\* last department's channel.
C12_Witness ==
    /\ rb_mode = "refresh"
    /\ rb_pc = "done"
    /\ RbCount(rb_log, "delete", "high") = MaxOld
    /\ RbCount(rb_log, "send", "high") = 6
    /\ RbCount(rb_log, "send", "PM") = 4

\* C13: when a refresh has come to its end, the failure set
\* (self.permission_errors) holds every channel in which that refresh met a
\* permission failure.
C13_FailuresRecordedAtEnd ==
    \A t \in Triggers :
        ref_pc[t] = "end" => ref_failed[t] \subseteq permission_errors

\* C14: in kick, ban and timeout, when the target's top role is at or above
\* the invoker's and the invoker is not the owner, or at or above the bot's,
\* the command answers with one ephemeral rejection and issues neither a DM
\* to the target nor a kick, ban or timeout call.
C14_HierarchyRejectedBeforeAnyCall ==
    ( /\ mod_pc # "idle"
      /\ \/ mod_in.target_top >= mod_in.author_top /\ ~mod_in.is_owner
         \/ mod_in.target_top >= mod_in.me_top )
    => /\ mod_pc = "done"
       /\ Len(mod_log) = 1
       /\ mod_log[1].call = "send_message"
       /\ mod_log[1].ephemeral
       /\ \A i \in 1..Len(mod_log) :
             mod_log[i].call \notin {"user.send"} \cup ModCommands

C14_Witness ==
    /\ mod_pc = "done"
    /\ mod_cmd = "ban"
    /\ mod_in.has_permission
    /\ mod_in.target_top = mod_in.me_top
    /\ mod_in.target_top < mod_in.author_top
    /\ mod_log = <<ModCall("send_message", "higher_than_mine", TRUE)>>

\* C15: clear_channel called on its own removes the messages younger than
\* 14 days with one bulk call that comes before any single deletion, removes
\* the older ones one at a time with a pause after each, and a permission
\* failure in either phase reaches the caller unchanged, the messages not
\* yet deleted staying in the channel.
C15_ClearInTwoPhases ==
    rb_mode = "clear" =>
       LET ch == RbChannels[rb_chan]
           n == Len(rb_log)
       IN  /\ RbCount(rb_log, "purge", ch) <= 1
           /\ \A i, j \in 1..n :
                 i < j => ~(rb_log[i].op = "delete" /\ rb_log[j].op = "purge")
           /\ \A i \in 1..n :
                 rb_log[i].op = "delete" =>
                    IF i < n THEN rb_log[i + 1].op = "sleep"
                    ELSE rb_pc \in {"sleep", "raised"}
           /\ rb_pc = "returned" =>
                 /\ rb_msgs[ch] = [recent |-> 0, old |-> 0]
                 /\ RbCount(rb_log, "purge", ch) = IF rb_recent > 0 THEN 1 ELSE 0
                 /\ RbCount(rb_log, "sleep", ch) = RbCount(rb_log, "delete", ch)
           /\ rb_pc = "raised" =>
                 /\ rb_raised = rb_input.fail.kind
                 /\ rb_log[n].op = rb_input.fail.op
                 /\ rb_input.fail.op = "purge" =>
                       /\ rb_msgs[ch].recent = rb_recent
                       /\ rb_recent > 0
                 /\ rb_input.fail.op \in {"purge", "delete"} =>
                       rb_msgs[ch].old = rb_older
                 /\ rb_input.fail.op = "delete" =>
                       /\ rb_older > 0
                       /\ rb_msgs[ch].recent = 0

C15_Witness ==
    /\ rb_mode = "clear"
    /\ rb_pc = "raised"
    /\ rb_raised = "Forbidden"
    /\ rb_input.fail.op = "delete"
    /\ RbCount(rb_log, "purge", RbChannels[rb_chan]) = 1
    /\ RbCount(rb_log, "delete", RbChannels[rb_chan]) = 2
    /\ rb_msgs[RbChannels[rb_chan]].old = 1

\* The kind of an error as the listener documents it: the error itself, or
\* the one it wraps.
C16_Kind ==
    LET c == IF eh_error.original # "none" THEN eh_error.original
             ELSE eh_error.cls
    IN  CASE c = "CommandOnCooldown"     -> "cooldown"
          [] c = "NoPrivateMessage"      -> "no_private_messages"
          [] c = "MissingPermissions"    -> "you_lack_permissions"
          [] c = "BotMissingPermissions" -> "i_lack_permissions"
          [] c = "Forbidden"             -> "forbidden"
          [] c = "NotFound"              -> "not_found"
          [] c = "CheckFailure"          -> "no_permission_to_use"
          [] OTHER                       -> "error_logged"

C17_AttemptsNeverExceedMax ==
    \A p \in Players : ongoing_games[p].attempts <= 7

\* C18: for a paginator over N >= 1 pages, 0 <= current_page <= N-1 always;
\* first and previous pressed on page 0 leave it at 0, next and last pressed
\* on page N-1 leave it at N-1; after construction and after every press
\* first/previous are disabled exactly on page 0 and next/last exactly on
\* page N-1.
C18_PageWithinBounds ==
    pg_pc # "none" =>
       /\ 0 <= current_page
       /\ current_page <= pg_embeds - 1
       /\ ( pg_last.button \in {"first_page", "prev_page"} /\ pg_last.from = 0 )
             => current_page = 0
       /\ ( pg_last.button \in {"next_page", "last_page"}
            /\ pg_last.from = pg_embeds - 1 )
             => current_page = pg_embeds - 1
       /\ pg_disabled["first_page"] = (current_page = 0)
       /\ pg_disabled["prev_page"] = (current_page = 0)
       /\ pg_disabled["next_page"] = (current_page = pg_embeds - 1)
       /\ pg_disabled["last_page"] = (current_page = pg_embeds - 1)

C18_Witness ==
    /\ pg_pc = "ready"
    /\ pg_embeds = 3
    /\ pg_last = [button |-> "next_page", from |-> 2]
    /\ current_page = 2
    /\ pg_disabled["next_page"]
    /\ ~pg_disabled["prev_page"]

\* A well-formed compact duration string: digit groups, each followed by
\* one of d, h, m, s.
C19_WellFormed(s) ==
    /\ Len(s) > 0
    /\ \A i \in 1..Len(s) : s[i] \in DecDigitSet \cup UnitLetters
    /\ s[1] \in DecDigitSet
    /\ s[Len(s)] \in UnitLetters
    /\ \A i \in 2..Len(s) : s[i] \in UnitLetters => s[i - 1] \in DecDigitSet

\* C19: for a well-formed s, parsing the text of
\* format_duration(parse_duration(s)) gives the seconds parse_duration(s)
\* gave.
C19_RoundTripKeepsSeconds ==
    ( dur_pc = "reparsed" /\ C19_WellFormed(dur_input) )
    => dur_again = dur_seconds

RECURSIVE C20_Sum(_)
C20_Sum(f) ==
    IF DOMAIN f = {} THEN 0
    ELSE LET x == CHOOSE x \in DOMAIN f : TRUE
         IN  f[x] + C20_Sum([y \in DOMAIN f \ {x} |-> f[y]])

RECURSIVE C20_Pow10(_)
C20_Pow10(n) == IF n = 0 THEN 1 ELSE 10 * C20_Pow10(n - 1)

\* The digits in the buffer when position i of s is reached: those before
\* i with no unit letter between them and i.
C20_Buffer(s, i) ==
    {j \in 1..(i - 1) :
        /\ s[j] \in DecDigitSet
        /\ \A k \in (j + 1)..(i - 1) : lower(s[k]) \notin UnitLetters}

C20_BufferValue(s, i) ==
    LET B == C20_Buffer(s, i)
    IN  C20_Sum([j \in B |->
                   DigitValue(s[j]) * C20_Pow10(Cardinality({k \in B : k > j}))])

\* The sum the description gives for a string.
C20_Expected(s) ==
    LET closing == {i \in 1..Len(s) : /\ lower(s[i]) \in UnitLetters
                                      /\ C20_Buffer(s, i) # {}}
    IN  C20_Sum([i \in closing |->
                   C20_BufferValue(s, i) * UnitSeconds(lower(s[i]))])
        + C20_BufferValue(s, Len(s) + 1)

\* C20: for every input string parse_duration returns the sum, over each
\* digit buffer closed by a unit letter d, h, m or s of either case, of the
\* buffer's value times 86400, 3600, 60 or 1, plus the digits left in the
\* buffer at the end as seconds; every other character, and a unit letter
\* met with an empty buffer, adds nothing.
C20_ParseIsSumOfBuffers ==
    dur_pc # "idle" => dur_seconds = Returned(C20_Expected(dur_input))

\* C20 on the strings whose digits are all decimal digits: there the
\* description holds.
C20_OnDecimalDigits ==
    ( dur_pc # "idle" /\ \A i \in 1..Len(dur_input) : dur_input[i] # "sup2" )
    => dur_seconds = Returned(C20_Expected(dur_input))

\* The text of one component: the count, the unit's name, and an "s" exactly
\* when the count is not 1.
C21_Component(n, word) ==
    IF n = 1 THEN <<"1", " ">> \o word
    ELSE Str(n) \o <<" ">> \o word \o <<"s">>

\* The components the description asks for, largest first.
C21_Components ==
    LET day == <<"d", "a", "y">>
        hour == <<"h", "o", "u", "r">>
        minute == <<"m", "i", "n", "u", "t", "e">>
        second == <<"s", "e", "c", "o", "n", "d">>
    IN  (IF fmt_in.d # 0 THEN <<C21_Component(fmt_in.d, day)>> ELSE <<>>)
     \o (IF fmt_in.h # 0 THEN <<C21_Component(fmt_in.h, hour)>> ELSE <<>>)
     \o (IF fmt_in.m # 0 THEN <<C21_Component(fmt_in.m, minute)>> ELSE <<>>)
     \o (IF fmt_in.d = 0 /\ fmt_in.h = 0 /\ fmt_in.m = 0 /\ fmt_in.s # 0
         THEN <<C21_Component(fmt_in.s, second)>> ELSE <<>>)

\* C21: format_duration returns the nonzero day, hour and minute components,
\* largest first and joined by ", ", each with a plural "s" exactly when its
\* count is not 1; seconds appear only when days, hours and minutes are all
\* zero and the remainder is not; 0 gives the empty string.
C21_FormatDurationText ==
    fmt_pc \in {"formatted", "both"} =>
       LET c == C21_Components
       IN  /\ fmt_text =
                 CASE Len(c) = 0 -> <<>>
                   [] Len(c) = 1 -> c[1]
                   [] Len(c) = 2 -> c[1] \o <<",", " ">> \o c[2]
                   [] Len(c) = 3 -> c[1] \o <<",", " ">> \o c[2]
                                         \o <<",", " ">> \o c[3]
           /\ fmt_secs = 0 => fmt_text = <<>>

C21_Witness ==
    /\ fmt_pc = "formatted"
    /\ fmt_in = [d |-> 1, h |-> 2, m |-> 1, s |-> 59]
    /\ fmt_text = <<"1", " ", "d", "a", "y", ",", " ",
                    "2", " ", "h", "o", "u", "r", "s", ",", " ",
                    "1", " ", "m", "i", "n", "u", "t", "e">>

\* C30: for every whole number of seconds, and so for every duration * 60
\* the timeout command passes, format_timespan returns the string
\* format_duration returns.
C30_TimespanEqualsDuration ==
    fmt_pc = "both" => fmt_span = fmt_text

C30_Witness ==
    /\ fmt_pc = "both"
    /\ fmt_in = [d |-> 28, h |-> 0, m |-> 0, s |-> 0]
    /\ fmt_secs = 40320 * 60
    /\ fmt_span = <<"2", "8", " ", "d", "a", "y", "s">>
    /\ fmt_text = fmt_span

\* The roles whose names match the department's curator, head or
\* deputy-head pattern, and the members by lower-cased display name.
C22_LeaderRoles == {2, 3, 4, 6}
C22_ByName == <<"a2", "a3", "a1">>

\* C22: the mid-level roster is exactly the members who hold the
\* department's base role and no role matching its curator, head or
\* deputy-head pattern, in case-insensitive display-name order, numbered
\* from 1.
C22_MidStaffRoster ==
    ms_pc = "returned" =>
       LET expected == {m \in DOMAIN display_name :
                           /\ MsBaseRole \in ms_roles[m]
                           /\ ms_roles[m] \cap C22_LeaderRoles = {}}
           Pos(m) == CHOOSE i \in 1..3 : C22_ByName[i] = m
           lines == ms_embed.lines
       IN  /\ ms_embed.none <=> (~ms_dept_role \/ expected = {})
           /\ ~ms_embed.none =>
                 /\ {lines[i].member : i \in 1..Len(lines)} = expected
                 /\ Len(lines) = Cardinality(expected)
                 /\ \A i \in 1..Len(lines) : lines[i].n = i
                 /\ \A i, j \in 1..Len(lines) :
                       i < j => Pos(lines[i].member) < Pos(lines[j].member)

C22_Witness ==
    /\ ms_pc = "returned"
    /\ ms_roles = [a1 |-> {1}, a2 |-> {1, 7}, a3 |-> {1, 6}]
    /\ ms_embed.lines = << [n |-> 1, member |-> "a2"],
                           [n |-> 2, member |-> "a1"] >>

C24_HasClosedGroup(s) ==
    \E i \in 1..(Len(s) - 1) : isdigit(s[i]) /\ lower(s[i + 1]) \in UnitLetters

C25_SweepDropsStaleRecords ==
    [][(sweep_pc = "running" /\ sweep_pc' = "idle")
        => \A r \in timed_roles :
              (r.expires_at > now /\ get_guild(r.guild_id) /\ get_member(r.user_id))
              => /\ IF ~get_role(r.role_id)
                       \/ <<r.user_id, r.role_id>> \notin member_roles
                    THEN r \notin timed_roles'
                    ELSE r \in timed_roles'
                 /\ member_roles' = member_roles]_vars

C27_ReturnsOwnRow ==
    \A c \in Calls :
        call_result[c] = "ok" => call_returned[c] = call_row[c]

\* C28: whatever the interleaving of persistence operations, at most one
\* adapter is constructed and at most one connection is opened, and every
\* query runs on that one connection.
C28_SingleConnection ==
    /\ db_adapters <= 1
    /\ db_opened <= 1
    /\ Cardinality(db_used) <= 1
    /\ \A o \in DbOps : db_pc[o] = "execute" => db_conn[o] = 1

\* An iteration of the cog's schedule in which a failure has occurred: a
\* refresh that met a permission failure in a channel, a sweep that logged
\* its error.
C29_IterationFailed(c) ==
    /\ loop_state[c] = "running"
    /\ IF c = "staff_listings"
       THEN ref_failed["tick"] # {}
       ELSE sweep_pc = "idle" /\ error_log > 0

\* The next iteration of the cog's schedule has begun.
C29_NextTick(c) ==
    /\ loop_state[c] = "running"
    /\ IF c = "staff_listings"
       THEN ref_pc["tick"] = "clear" /\ ref_chan["tick"] = 1 /\ ref_failed["tick"] = {}
       ELSE sweep_pc = "running"

\* C29: an iteration of a background schedule in which a failure occurred
\* is always followed by the next iteration of that schedule: the failure
\* does not end the loop.
C29_FailureKeepsSchedule ==
    \A c \in Cogs : C29_IterationFailed(c) ~> C29_NextTick(c)

\* The scheduled refresh has met a permission failure in its first channel
\* and has gone on to the next one.
C29_Witness ==
    /\ loop_state["staff_listings"] = "running"
    /\ ref_failed["tick"] = {"high"}
    /\ ref_pc["tick"] = "clear"
    /\ ref_chan["tick"] = 2

C33_AllOrNothing ==
    [][\A c \in Calls :
        ( /\ call_pc[c] = "insert"
          /\ call_result'[c] = "DatabaseError"
          /\ c \in api_add_roles )
        => ( /\ <<call_args[c].member, call_args[c].role>> \notin member_roles'
             /\ timed_roles' = timed_roles )]_vars

\* The record under processing has auto_remove set and its guild, member
\* and role resolved when processing began.
C34_Case ==
    exp_record.auto_remove = 1 /\ ~exp_unresolved

\* C34 as stated: when expiry processing has deleted the record of a grant
\* with auto_remove set whose guild, member and role resolved, the member
\* does not hold the role.
C34_RoleGoneAtDeletion ==
    [][(exp_pc = "delete" /\ exp_pc' = "done" /\ C34_Case)
        => <<exp_record.user_id, exp_record.role_id>> \notin member_roles']_vars

\* C34, amended: at that deletion the member does not hold the role, unless
\* the platform refused the removal or the role was assigned again while
\* the record was being processed.
C34_RoleGoneUnlessRefused ==
    [][(exp_pc = "delete" /\ exp_pc' = "done" /\ C34_Case)
        => \/ <<exp_record.user_id, exp_record.role_id>> \notin member_roles'
           \/ "remove_roles Forbidden" \in api_log
           \/ "assigned again" \in api_log]_vars

\* The record of a grant with auto_remove set has been deleted after the
\* role was taken from the member who held it.
C34_Witness ==
    /\ exp_pc = "done"
    /\ C34_Case
    /\ exp_has_role
    /\ api_log = {"remove_roles"}
    /\ <<exp_record.user_id, exp_record.role_id>> \notin member_roles
    /\ \A t \in timed_roles : t.id # exp_record.id

\* C35: no invocation of kick or ban ends with the notice delivered to the
\* target and the kick or ban call of that invocation failed.
C35_NoticeOnlyIfActed ==
    ( /\ mod_pc = "done"
      /\ mod_cmd \in {"kick", "ban"}
      /\ \E i \in 1..Len(mod_log) : mod_log[i].call = "user.send"
      /\ mod_in.dm_ok )
    => /\ \E i \in 1..Len(mod_log) : mod_log[i].call = mod_cmd
       /\ mod_in.call_ok


\* C36: the error listener never issues an initial interaction response
\* (response.send_message) for an interaction the command has already
\* acknowledged, whatever the error kind: no such call is made, so none is
\* rejected as a second initial response.
C36_NoSecondInitialResponse ==
    eh_response_done =>
       /\ eh_pc # "send"
       /\ eh_raised # "InteractionResponded"


\* C37: the update lock is held exactly while an event-triggered refresh is
\* running, by the listener whose refresh it is: once that refresh has
\* ended, with or without a permission failure on its way, the lock is free,
\* so no later member event finds it held by a refresh that is over.
C37_LockHeldOnlyWhileRefreshing ==
    /\ update_lock # "free" =>
          (update_lock \in EventTriggers /\ ref_pc[update_lock] # "idle")
    /\ \A t \in EventTriggers : ref_pc[t] # "idle" => update_lock = t

\* An event-triggered refresh that met a permission failure has ended, and
\* the lock is free again.
C37_Witness ==
    /\ ref_pc["member_update"] = "idle"
    /\ ref_failed["member_update"] # {}
    /\ update_lock = "free"
====
